---------------------------- MODULE Spec2Model ----------------------------
(***************************************************************************)
(* Model of the core-courses notation parser                               *)
(* (src/src/core_courses/location_parser.py, parse_location_string) and of *)
(* the occurrence materializer (src/src/core_courses/event_to_ical.py,     *)
(* generate_vevents).                                                      *)
(*                                                                         *)
(* A cell text is a sequence of tokens.  A token is one character (a       *)
(* digit, a punctuation mark, a blank) or one word of the fixed            *)
(* vocabulary; the Cyrillic words of the source are spelled in Latin       *)
(* letters with the prefix RU_:                                            *)
(*   RU_ONLINE = ОНЛАЙН, RU_S = С, RU_NACHALO = НАЧАЛО, RU_START = СТАРТ,  *)
(*   RU_V = В, RU_NA = НА, RU_TOLKO = ТОЛЬКО, RU_KROME = КРОМЕ, RU_I = И.  *)
(* Regular expressions are syntax trees matched by a backtracking matcher  *)
(* with the priorities of Python's re module (leftmost alternative first,  *)
(* greedy repetition longest first, lazy repetition shortest first).       *)
(***************************************************************************)
EXTENDS Integers, Sequences, FiniteSets, TLC

\* text: the cell's location text; year: datetime.today().year when the parser
\* module was loaded; pc: the step the cell is at; result: what
\* parse_location_string returned; group_event: the event built for the cell;
\* group_vevents: what generate_vevents yielded for the event; heap: the Item
\* objects that parse_location_string has returned, by address; cells: for
\* each of several cells handled in any order, its text, its step, what the
\* parser returned for it, the address of its Item, its event and its vevents;
\* anchor, target: the date and the weekday nearest_weekday is called for;
\* nearest: what it returned
VARIABLES text, year, pc, result, group_event, group_vevents, heap, cells,
          anchor, target, nearest

(***************************************************************************)
(* Optional values: None is <<>>, a present value v is <<v>>.              *)
(***************************************************************************)
None == <<>>

Some(v) == <<v>>

IsSet(f) == f # <<>>

(***************************************************************************)
(* Regular expressions.                                                    *)
(***************************************************************************)
Digits == {"0", "1", "2", "3", "4", "5", "6", "7", "8", "9"}

Lit(c) == <<"lit", c>>

Cls(S) == <<"cls", S>>

AnyChar == <<"any">>

RECURSIVE Concat(_, _, _)
\* ls[lo] \o ... \o ls[hi]
Concat(ls, lo, hi) ==
    CASE lo > hi -> <<>>
      [] lo = hi -> ls[lo]
      [] lo < hi -> Concat(ls, lo, (lo + hi) \div 2)
                    \o Concat(ls, (lo + hi) \div 2 + 1, hi)

\* the expressions of rs, with those of kind tag replaced by their parts
Splice(tag, rs) ==
    Concat([k \in 1..Len(rs) |-> IF rs[k][1] = tag THEN rs[k][2] ELSE <<rs[k]>>],
           1, Len(rs))

\* a concatenation inside a concatenation is part of it
Cat(rs) == <<"cat", Splice("cat", rs)>>

\* an alternation inside an alternation is part of it
Alt(rs) == <<"alt", Splice("alt", rs)>>

Opt(r) == <<"opt", r>>

Star(r) == <<"star", r>>

Plus(r) == Cat(<<r, Star(r)>>)

Lazy(r) == <<"lazy", r>>

LazyPlus(r) == Cat(<<r, Lazy(r)>>)

Grp(n, r) == <<"grp", n, r>>

\* a run of words separated by single blanks, as in the literal "STARTS FROM"
Words(ws) == Cat([i \in 1..(2 * Len(ws) - 1) |->
                    IF i % 2 = 1 THEN Lit(ws[(i + 1) \div 2]) ELSE Lit(" ")])

D == Cls(Digits)

\* \s*
WS == Star(Lit(" "))

\* \s+
WS1 == Plus(Lit(" "))

\* \d{1,2}
D12 == Cat(<<D, Opt(D)>>)

GroupNames == {"location", "any_modifier", "two_modifiers", "three_modifiers",
               "first", "second", "third", "rest", "modifier", "another",
               "common_modifier", "location2", "mod2", "l1", "m1", "l2", "m2",
               "l3", "m3", "loc", "loc1", "mod1", "loc2", "g1", "g2",
               "weeks", "dates", "time", "dates_except", "day", "month"}

NoCaps == [n \in GroupNames |-> <<0, 0>>]

NoMatch == [ok |-> FALSE, caps |-> NoCaps, end |-> 0]

Res(e, caps) == [end |-> e, caps |-> caps]

\* the least element of a set of numbers
Min(S) == CHOOSE p \in S : \A q \in S : p <= q

\* expression r matches exactly one token
Single(r) == r[1] \in {"lit", "cls", "any"}

\* the one-token expression r matches token c
TokenOk(r, c) ==
    CASE r[1] = "lit" -> c = r[2]
      [] r[1] = "cls" -> c \in r[2]
      [] r[1] = "any" -> TRUE

\* the position after the longest run of tokens from i that r matches one by one
RunEnd(r, s, i) ==
    LET bad == {p \in i..Len(s) : ~TokenOk(r, s[p])}
    IN  IF bad = {} THEN Len(s) + 1 ELSE Min(bad)

RECURSIVE Matches(_, _, _, _)
RECURSIVE CatFrom(_, _, _, _, _)
\* Every way expression r matches s from position i, in the order a
\* backtracking matcher tries them: the position after the match and the
\* groups captured.
Matches(r, s, i, caps) ==
    CASE r[1] = "lit" ->
           IF i <= Len(s) /\ s[i] = r[2] THEN <<Res(i + 1, caps)>> ELSE <<>>
      [] r[1] = "cls" ->
           IF i <= Len(s) /\ s[i] \in r[2] THEN <<Res(i + 1, caps)>> ELSE <<>>
      [] r[1] = "any" ->
           IF i <= Len(s) THEN <<Res(i + 1, caps)>> ELSE <<>>
      [] r[1] = "cat" -> CatFrom(r[2], 1, Len(r[2]), s, <<Res(i, caps)>>)
      [] r[1] = "alt" ->
           Concat([k \in 1..Len(r[2]) |-> Matches(r[2][k], s, i, caps)], 1, Len(r[2]))
      [] r[1] = "opt" -> Matches(r[2], s, i, caps) \o <<Res(i, caps)>>
      [] r[1] = "star" /\ Single(r[2]) ->
           LET e == RunEnd(r[2], s, i)
           IN  [k \in 1..(e - i + 1) |-> Res(e + 1 - k, caps)]
      [] r[1] = "lazy" /\ Single(r[2]) ->
           LET e == RunEnd(r[2], s, i)
           IN  [k \in 1..(e - i + 1) |-> Res(i + k - 1, caps)]
      [] r[1] = "star" /\ ~Single(r[2]) ->
           LET once == Matches(r[2], s, i, caps)
           IN  Concat([k \in 1..Len(once) |->
                         Matches(r, s, once[k].end, once[k].caps)], 1, Len(once))
               \o <<Res(i, caps)>>
      [] r[1] = "lazy" /\ ~Single(r[2]) ->
           LET once == Matches(r[2], s, i, caps)
           IN  <<Res(i, caps)>>
               \o Concat([k \in 1..Len(once) |->
                            Matches(r, s, once[k].end, once[k].caps)], 1, Len(once))
      [] r[1] = "grp" ->
           LET inner == Matches(r[3], s, i, caps)
           IN  [k \in 1..Len(inner) |->
                  Res(inner[k].end, [inner[k].caps EXCEPT ![r[2]] = <<i, inner[k].end>>])]

\* the matches of rs[lo], ..., rs[hi] in a row after each of the partial matches
CatFrom(rs, lo, hi, s, partials) ==
    CASE partials = <<>> \/ lo > hi -> partials
      [] partials # <<>> /\ lo = hi ->
           Concat([k \in 1..Len(partials) |->
                     Matches(rs[lo], s, partials[k].end, partials[k].caps)],
                  1, Len(partials))
      [] partials # <<>> /\ lo < hi ->
           CatFrom(rs, (lo + hi) \div 2 + 1, hi, s,
                   CatFrom(rs, lo, (lo + hi) \div 2, s, partials))

\* re.fullmatch(r, s): the first match that ends at the end of s
FullMatch(r, s) ==
    LET first(ms) ==
            CASE ms = <<>> -> NoMatch
              [] \A k \in 1..Len(ms) : ms[k].end # Len(s) + 1 -> NoMatch
              [] OTHER ->
                   [ok |-> TRUE,
                    caps |-> ms[Min({k \in 1..Len(ms) : ms[k].end = Len(s) + 1})].caps,
                    end |-> Len(s) + 1]
    IN  first(Matches(r, s, 1, NoCaps))

\* pattern.match(s, i): the first match from position i
MatchAt(r, s, i) ==
    LET first(ms) ==
            IF ms = <<>> THEN NoMatch
            ELSE [ok |-> TRUE, caps |-> ms[1].caps, end |-> ms[1].end]
    IN  first(Matches(r, s, i, NoCaps))

\* m.group(name)
Group(s, m, name) == SubSeq(s, m.caps[name][1], m.caps[name][2] - 1)

(***************************************************************************)
(* Numbers, dates and times.                                               *)
(***************************************************************************)
DigitVal(c) == CASE c = "0" -> 0 [] c = "1" -> 1 [] c = "2" -> 2 [] c = "3" -> 3
                 [] c = "4" -> 4 [] c = "5" -> 5 [] c = "6" -> 6 [] c = "7" -> 7
                 [] c = "8" -> 8 [] c = "9" -> 9

RECURSIVE ToIntAcc(_, _)
ToIntAcc(ts, acc) ==
    IF ts = <<>> THEN acc
    ELSE IF Head(ts) = " " THEN ToIntAcc(Tail(ts), acc)
    ELSE ToIntAcc(Tail(ts), 10 * acc + DigitVal(Head(ts)))

\* int(str): blanks around the digits are ignored
ToInt(ts) == ToIntAcc(ts, 0)

\* the first position >= i of s holding a token of seps, or 0
IndexOf(s, seps, i) ==
    LET found == {p \in i..Len(s) : s[p] \in seps}
    IN  IF found = {} THEN 0 ELSE Min(found)

RECURSIVE Split(_, _)
\* str.split(sep) for sep in seps
Split(s, seps) ==
    LET j == IndexOf(s, seps, 1)
    IN  IF j = 0 THEN <<s>>
        ELSE <<SubSeq(s, 1, j - 1)>> \o Split(SubSeq(s, j + 1, Len(s)), seps)

IsLeap(y) == (y % 4 = 0 /\ y % 100 # 0) \/ y % 400 = 0

DaysInMonth(y, m) ==
    CASE m \in {1, 3, 5, 7, 8, 10, 12} -> 31
      [] m \in {4, 6, 9, 11} -> 30
      [] m = 2 -> IF IsLeap(y) THEN 29 ELSE 28

\* datetime.date(y, m, d) is constructible (MINYEAR = 1, MAXYEAR = 9999)
ValidDate(y, m, d) ==
    /\ y \in 1..9999
    /\ m \in 1..12
    /\ d \in 1..DaysInMonth(y, m)

\* datetime.time(hour=h, minute=mi) is constructible
ValidTime(h, mi) == h \in 0..23 /\ mi \in 0..59

(***************************************************************************)
(* Item (location_parser.py:14-137) and the outcomes of the functions that *)
(* build one: an Item, None, or an exception leaving the function.         *)
(***************************************************************************)
Item(location, starts_from, starts_at, till, on_weeks, on, except_, NEST) ==
    [location |-> location, starts_from |-> starts_from, starts_at |-> starts_at,
     till |-> till, on_weeks |-> on_weeks, on |-> on, except_ |-> except_,
     NEST |-> NEST]

EmptyItem == Item(None, None, None, None, None, None, None, None)

RetNone == [kind |-> "none", item |-> EmptyItem]

Raise == [kind |-> "raise", item |-> EmptyItem]

Ret(item) == [kind |-> "item", item |-> item]

(***************************************************************************)
(* Preprocessing, location_parser.py:145-151.                              *)
(***************************************************************************)
UpperOf(c) ==
    CASE c = "online" -> "ONLINE" [] c = "room" -> "ROOM" [] c = "week" -> "WEEK"
      [] c = "on" -> "ON" [] c = "and" -> "AND" [] c = "tba" -> "TBA"
      [] OTHER -> c

\* x.upper()
Upper(x) == [i \in 1..Len(x) |-> UpperOf(x[i])]

\* x.replace("(" + w + ")", w): the parentheses around each w are dropped
ReplaceParen(x, w) ==
    LET found == {p \in 1..(Len(x) - 2) : x[p] = "(" /\ x[p + 1] = w /\ x[p + 2] = ")"}
        kept == SelectSeq([p \in 1..Len(x) |-> <<p, x[p]>>],
                          LAMBDA t : t[1] \notin found /\ (t[1] - 2) \notin found)
    IN  [k \in 1..Len(kept) |-> kept[k][2]]

RECURSIVE LStrip(_)
LStrip(x) == IF x # <<>> /\ Head(x) = " " THEN LStrip(Tail(x)) ELSE x

RECURSIVE RStrip(_)
RStrip(x) ==
    IF x # <<>> /\ x[Len(x)] = " " THEN RStrip(SubSeq(x, 1, Len(x) - 1)) ELSE x

\* x.strip()
Strip(x) == RStrip(LStrip(x))

RECURSIVE SubAndFrom(_, _, _)
\* re.sub(r"\s+" + w + r"\s+", ", ", x), scanning from position i
SubAndFrom(x, w, i) ==
    LET replace(found) ==
            IF i > Len(x) THEN <<>>
            ELSE IF found = {} THEN SubSeq(x, i, Len(x))
            ELSE SubSeq(x, i, Min(found) - 1) \o <<",", " ">>
                 \o SubAndFrom(x, w, MatchAt(Cat(<<WS1, Lit(w), WS1>>), x, Min(found)).end)
    IN  replace({p \in i..Len(x) : MatchAt(Cat(<<WS1, Lit(w), WS1>>), x, p).ok})

SubAnd(x, w) == SubAndFrom(x, w, 1)

Normalize(x) ==
    SubAnd(SubAnd(Strip(ReplaceParen(ReplaceParen(Upper(x), "ONLINE"), "RU_ONLINE")),
                  "AND"), "RU_I")

(***************************************************************************)
(* Locations, location_parser.py:156-187.                                  *)
(***************************************************************************)
OnlineWord == Alt(<<Lit("ONLINE"), Lit("RU_ONLINE")>>)

LocDigits == Grp("g1", Plus(D))

LocUnknown == Lit("?")

LocRoom == Cat(<<Lit("ROOM"), WS, Opt(Lit("#")), WS, Grp("g1", Plus(D))>>)

LocOnline == OnlineWord

LocOnlineTba == Cat(<<OnlineWord, WS, Lit("("), Lit("TBA"), Lit(")")>>)

SlashAtom == Plus(Alt(<<D, Lit("ONLINE"), Lit("RU_ONLINE")>>))

LocSlash == Grp("g1", Cat(<<SlashAtom, Plus(Cat(<<WS, Lit("/"), WS, SlashAtom>>))>>))

RECURSIVE JoinSlash(_)
\* "/".join(parts)
JoinSlash(parts) ==
    IF Len(parts) = 1 THEN parts[1]
    ELSE parts[1] \o <<"/">> \o JoinSlash(Tail(parts))

\* [location.strip() for location in locations.split("/")], joined by "/"
SlashLocation(ts) ==
    LET parts == Split(ts, {"/"})
    IN  JoinSlash([i \in 1..Len(parts) |-> Strip(parts[i])])

\* get_location(y): the location string, or None
get_location(y) ==
    LET slash(m6) ==
            IF m6.ok THEN Some(SlashLocation(Group(y, m6, "g1"))) ELSE None
        room(m3) ==
            IF m3.ok THEN Some(Group(y, m3, "g1"))
            ELSE IF FullMatch(LocOnline, y).ok THEN Some(y)
            ELSE IF FullMatch(LocOnlineTba, y).ok THEN Some(y)
            ELSE slash(FullMatch(LocSlash, y))
        digits(m1) ==
            IF m1.ok THEN Some(Group(y, m1, "g1"))
            ELSE IF FullMatch(LocUnknown, y).ok THEN Some(<<"?">>)
            ELSE room(FullMatch(LocRoom, y))
    IN  digits(FullMatch(LocDigits, y))

_loc == Alt(<<LocDigits, LocUnknown, LocRoom, LocOnline, LocOnlineTba, LocSlash>>)

(***************************************************************************)
(* Modifiers, location_parser.py:195-281.                                  *)
(***************************************************************************)
DateRe == Cat(<<D12, Cls({"/", "."}), D12>>)

TimeRe == Cat(<<D12, Cls({":", "."}), D12>>)

\* ydate(day=d, month=m): a date of the year the module was loaded in
ydate(d, m) ==
    IF ValidDate(year, m, d) THEN Ret(<<year, m, d>>) ELSE Raise

\* the date written by the tokens "D/M" or "D.M"
DateOf(ts) ==
    LET parts == Split(ts, {"/", "."})
    IN  ydate(ToInt(parts[1]), ToInt(parts[2]))

\* time(hour=.., minute=..) written by the tokens "H:M" or "H.M"
TimeOf(ts) ==
    LET parts == Split(ts, {":", "."})
    IN  IF ValidTime(ToInt(parts[1]), ToInt(parts[2]))
        THEN Ret(<<ToInt(parts[1]), ToInt(parts[2])>>) ELSE Raise

_starts_from_pattern ==
    Cat(<<Opt(Lit("(")),
          Alt(<<Words(<<"STARTS", "ON">>), Words(<<"STARTS", "FROM">>), Lit("FROM"),
                Lit("RU_S"), Words(<<"RU_NACHALO", "RU_S">>), Lit("RU_START"),
                Words(<<"RU_START", "RU_S">>)>>),
          WS, Grp("g2", DateRe), Opt(Lit(")"))>>)

starts_from(y) ==
    LET matched(m) ==
            LET d == DateOf(Group(y, m, "g2"))
            IN  IF ~m.ok THEN RetNone
                ELSE IF d.kind = "raise" THEN Raise
                ELSE Ret([EmptyItem EXCEPT !.starts_from = Some(d.item)])
    IN  matched(FullMatch(_starts_from_pattern, y))

_starts_at_pattern ==
    Cat(<<Opt(Lit("(")),
          Alt(<<Lit("STARTS"), Words(<<"STARTS", "AT">>),
                Words(<<"RU_NACHALO", "RU_V">>), Lit("RU_NACHALO")>>),
          WS, Grp("g2", TimeRe), Opt(Lit(")"))>>)

starts_at(y) ==
    LET matched(m) ==
            LET t == TimeOf(Group(y, m, "g2"))
            IN  IF ~m.ok THEN RetNone
                ELSE IF t.kind = "raise" THEN Raise
                ELSE Ret([EmptyItem EXCEPT !.starts_at = Some(t.item)])
    IN  matched(FullMatch(_starts_at_pattern, y))

WeekEntry == Cat(<<Plus(D), Opt(Cat(<<Lit("-"), Plus(D)>>))>>)

_week_pattern ==
    Cat(<<Opt(Lit("(")), Lit("WEEK"), WS,
          Grp("weeks", Cat(<<WeekEntry, Star(Cat(<<Lit(","), WS, WeekEntry>>))>>)),
          Opt(Cat(<<WS1, Lit("ONLY")>>)), Opt(Lit(")"))>>)

\* list(range(a, b + 1))
Range(a, b) == [i \in 1..(IF b >= a THEN b - a + 1 ELSE 0) |-> a + i - 1]

RECURSIVE Flatten(_)
Flatten(ls) == IF ls = <<>> THEN <<>> ELSE Head(ls) \o Flatten(Tail(ls))

\* the weeks of one entry "N" or "N-M"
WeeksOfEntry(e) ==
    LET w == Split(e, {"-"})
    IN  IF Len(w) = 2 THEN Range(ToInt(w[1]), ToInt(w[2])) ELSE <<ToInt(w[1])>>

week(y) ==
    LET matched(m) ==
            LET entries == Split(Group(y, m, "weeks"), {","})
            IN  IF ~m.ok THEN RetNone
                ELSE Ret([EmptyItem EXCEPT !.on_weeks =
                            Some(Flatten([i \in 1..Len(entries) |->
                                            WeeksOfEntry(entries[i])]))])
    IN  matched(FullMatch(_week_pattern, y))

_date_component_pattern == Cat(<<Grp("day", D12), Cls({"/", "."}), Grp("month", D12)>>)

_date_component_non_capturing == DateRe

RECURSIVE FindDates(_, _)
\* [ydate(day=.., month=..) for dm in re.finditer(_date_component_pattern, s)],
\* scanning from position i; an invalid date raises
FindDates(s, i) ==
    LET matched(m) ==
            LET d == ydate(ToInt(Group(s, m, "day")), ToInt(Group(s, m, "month")))
                more == FindDates(s, m.end)
            IN  IF d.kind = "raise" \/ more.kind = "raise" THEN Raise
                ELSE Ret(<<d.item>> \o more.item)
        next(found) ==
            IF found = {} THEN Ret(<<>>)
            ELSE matched(MatchAt(_date_component_pattern, s, Min(found)))
    IN  next({p \in i..Len(s) : MatchAt(_date_component_pattern, s, p).ok})

_on_pattern ==
    Cat(<<Opt(Lit("(")),
          Alt(<<Lit("ON"), Words(<<"ONLY", "ON">>), Lit("RU_NA"),
                Words(<<"RU_TOLKO", "RU_NA">>), Lit("RU_TOLKO")>>),
          WS,
          Grp("dates", Cat(<<_date_component_non_capturing,
                             Star(Cat(<<Cls({",", " "}), WS,
                                        _date_component_non_capturing>>))>>)),
          Opt(Lit(")"))>>)

on(y) ==
    LET found(dates) ==
            IF dates.kind = "raise" THEN Raise
            ELSE Ret([EmptyItem EXCEPT !.on = Some(dates.item)])
        matched(m) ==
            IF ~m.ok THEN RetNone ELSE found(FindDates(Group(y, m, "dates"), 1))
    IN  matched(FullMatch(_on_pattern, y))

_till_pattern ==
    Cat(<<Opt(Lit("(")), Lit("TILL"), WS, Grp("time", TimeRe), Opt(Lit(")"))>>)

till(y) ==
    LET matched(m) ==
            LET t == TimeOf(Group(y, m, "time"))
            IN  IF ~m.ok THEN RetNone
                ELSE IF t.kind = "raise" THEN Raise
                ELSE Ret([EmptyItem EXCEPT !.till = Some(t.item)])
    IN  matched(FullMatch(_till_pattern, y))

_except_pattern ==
    Cat(<<Opt(Lit("(")), Alt(<<Lit("EXCEPT"), Lit("RU_KROME")>>), WS,
          Grp("dates_except",
              Cat(<<_date_component_non_capturing,
                    Star(Cat(<<Plus(Cls({",", " "})),
                               _date_component_non_capturing>>))>>)),
          Opt(Lit(")"))>>)

except_(y) ==
    LET found(dates) ==
            IF dates.kind = "raise" THEN Raise
            ELSE Ret([EmptyItem EXCEPT !.except_ = Some(dates.item)])
        matched(m) ==
            IF ~m.ok THEN RetNone
            ELSE found(FindDates(Group(y, m, "dates_except"), 1))
    IN  matched(FullMatch(_except_pattern, y))

_mod == Alt(<<_starts_from_pattern, _starts_at_pattern, _week_pattern, _on_pattern,
              _till_pattern, _except_pattern>>)

any_modifier(y) ==
    LET as_starts_from == starts_from(y)
        as_starts_at == starts_at(y)
        as_week == week(y)
        as_on == on(y)
        as_till == till(y)
    IN  IF ~FullMatch(_mod, y).ok THEN RetNone
        ELSE IF as_starts_from # RetNone THEN as_starts_from
        ELSE IF as_starts_at # RetNone THEN as_starts_at
        ELSE IF as_week # RetNone THEN as_week
        ELSE IF as_on # RetNone THEN as_on
        ELSE IF as_till # RetNone THEN as_till
        ELSE except_(y)

(***************************************************************************)
(* Flat families, location_parser.py:189-338.                              *)
(*                                                                         *)
(* The closures of parse_location_string call each other by name, through  *)
(* Call, defined after the last of them.                                   *)
(***************************************************************************)
RECURSIVE Call(_, _)

location_plus_pattern(group_name, pattern) ==
    Cat(<<Grp("location", _loc), Lit(" "), Opt(Lit("(")), Grp(group_name, pattern),
          Opt(Lit(")"))>>)

NamedGroups == GroupNames \ {"g1", "g2"}

RECURSIVE Unname(_)
\* re.sub(r"\(\?P<[^>]+>", "(?:", pattern): named groups stop capturing
Unname(r) ==
    CASE r[1] \in {"lit", "cls", "any"} -> r
      [] r[1] = "cat" -> Cat([i \in 1..Len(r[2]) |-> Unname(r[2][i])])
      [] r[1] = "alt" -> Alt([i \in 1..Len(r[2]) |-> Unname(r[2][i])])
      [] r[1] \in {"opt", "star", "lazy"} -> <<r[1], Unname(r[2])>>
      [] r[1] = "grp" -> IF r[2] \in NamedGroups THEN Unname(r[3])
                         ELSE <<"grp", r[2], Unname(r[3])>>

_mod_noname == Unname(_mod)

\* o.location = location, where o is what a modifier function returned
WithLocation(o, location) ==
    IF o.kind = "item" THEN Ret([o.item EXCEPT !.location = location]) ELSE Raise

\* Item.model_validate(a.model_dump(exclude_none=True) | b.model_dump(exclude_none=True))
\* a faulty merge, b.model_dump(..) | a.model_dump(..): the first item wins
MergeFirstWins(a, b) == [f \in DOMAIN a |-> IF IsSet(a[f]) THEN a[f] ELSE b[f]]

Merge(a, b) == [f \in DOMAIN a |-> IF IsSet(b[f]) THEN b[f] ELSE a[f]]

_two_modifiers_pattern ==
    Cat(<<Opt(Lit("(")), Grp("first", _mod_noname), Opt(Lit(")")), WS,
          Opt(Lit("(")), Grp("second", _mod_noname), Opt(Lit(")"))>>)

two_modifiers(y) ==
    LET matched(m) ==
            LET as_z1 == Call("any_modifier", <<Group(y, m, "first")>>)
                as_z2 == Call("any_modifier", <<Group(y, m, "second")>>)
            IN  IF ~m.ok THEN RetNone
                ELSE IF as_z1.kind = "raise" \/ as_z2.kind = "raise" THEN Raise
                ELSE IF as_z1.kind = "item" /\ as_z2.kind = "item"
                THEN Ret(Merge(as_z1.item, as_z2.item))
                ELSE RetNone
    IN  matched(FullMatch(_two_modifiers_pattern, y))

_three_modifiers_pattern ==
    Cat(<<Opt(Lit("(")), Grp("first", _mod_noname), Opt(Lit(")")), WS,
          Opt(Lit("(")), Grp("second", _mod_noname), Opt(Lit(")")), WS,
          Opt(Lit("(")), Grp("third", _mod_noname), Opt(Lit(")"))>>)

three_modifiers(y) ==
    LET matched(m) ==
            LET as_z1 == Call("any_modifier", <<Group(y, m, "first")>>)
                as_z2 == Call("any_modifier", <<Group(y, m, "second")>>)
                as_z3 == Call("any_modifier", <<Group(y, m, "third")>>)
            IN  IF ~m.ok THEN RetNone
                ELSE IF as_z1.kind = "raise" \/ as_z2.kind = "raise" \/ as_z3.kind = "raise"
                THEN Raise
                ELSE IF as_z1.kind = "item" /\ as_z2.kind = "item" /\ as_z3.kind = "item"
                THEN Ret(Merge(Merge(as_z1.item, as_z2.item), as_z3.item))
                ELSE RetNone
    IN  matched(FullMatch(_three_modifiers_pattern, y))

\* a faulty family 1, without the test "if as_location := get_location(x)"
LocationAloneUnchecked(x) ==
    Ret([EmptyItem EXCEPT !.location = Call("get_location", <<x>>)])

\* family 1, lines 192-193: the text is a location alone
LocationAlone(x) ==
    IF IsSet(Call("get_location", <<x>>))
    THEN Ret([EmptyItem EXCEPT !.location = Call("get_location", <<x>>)])
    ELSE RetNone

\* family 3, lines 286-290: a location and one modifier
LocationOneModifier(x) ==
    LET matched(m) ==
            IF ~m.ok THEN RetNone
            ELSE WithLocation(Call("any_modifier", <<Group(x, m, "any_modifier")>>),
                              Call("get_location", <<Group(x, m, "location")>>))
    IN  matched(FullMatch(location_plus_pattern("any_modifier", _mod), x))

\* family 5, lines 308-312: a location and two modifiers
LocationTwoModifiers(x) ==
    LET matched(m) ==
            IF ~m.ok THEN RetNone
            ELSE WithLocation(Call("two_modifiers", <<Group(x, m, "two_modifiers")>>),
                              Call("get_location", <<Group(x, m, "location")>>))
    IN  matched(FullMatch(
                              location_plus_pattern("two_modifiers", _two_modifiers_pattern), x))

\* family 6, lines 334-338: a location and three modifiers
LocationThreeModifiers(x) ==
    LET matched(m) ==
            IF ~m.ok THEN RetNone
            ELSE WithLocation(Call("three_modifiers", <<Group(x, m, "three_modifiers")>>),
                              Call("get_location", <<Group(x, m, "location")>>))
    IN  matched(FullMatch(
                              location_plus_pattern("three_modifiers", _three_modifiers_pattern), x))

(***************************************************************************)
(* Nesting families, location_parser.py:340-478.                           *)
(***************************************************************************)
_simple_nest_pattern ==
    Cat(<<Grp("location", _loc), WS, Opt(Lit("(")), Grp("rest", Plus(AnyChar)),
          Opt(Lit(")"))>>)

\* a faulty 7a, whose inner parse runs without from_parent=True
simple_nest_recursive(y) ==
    LET matched(m) ==
            LET location == Call("get_location", <<Group(y, m, "location")>>)
                rest == Call("parse_location_string", <<Group(y, m, "rest"), FALSE>>)
            IN  IF ~m.ok THEN RetNone
                ELSE IF rest.kind = "raise" THEN Raise
                ELSE IF rest.kind = "item"
                THEN Ret([EmptyItem EXCEPT !.location = location,
                                           !.NEST = Some(<<rest.item>>)])
                ELSE RetNone
    IN  matched(FullMatch(_simple_nest_pattern, y))

\* 7a
simple_nest(y) ==
    LET matched(m) ==
            LET location == Call("get_location", <<Group(y, m, "location")>>)
                rest == Call("parse_location_string", <<Group(y, m, "rest"), TRUE>>)
            IN  IF ~m.ok THEN RetNone
                ELSE IF rest.kind = "raise" THEN Raise
                ELSE IF rest.kind = "item"
                THEN Ret([EmptyItem EXCEPT !.location = location, !.NEST = Some(<<rest.item>>)])
                ELSE RetNone
    IN  matched(FullMatch(_simple_nest_pattern, y))

\* 313 (WEEK 1-3) / ONLINE
pattern_1 ==
    Cat(<<Grp("location", _loc), WS, Opt(Lit("(")), Grp("modifier", _mod_noname),
          Opt(Lit(")")), WS, Lit("/"), WS, Grp("another", Plus(AnyChar))>>)

\* 7b
nest_1(y) ==
    LET matched(m) ==
            LET location == Call("get_location", <<Group(y, m, "location")>>)
                modifier == Call("any_modifier", <<Group(y, m, "modifier")>>)
                another == Call("parse_location_string", <<Group(y, m, "another"), TRUE>>)
            IN  IF ~m.ok THEN RetNone
                ELSE IF modifier.kind = "raise" \/ another.kind = "raise" THEN Raise
                ELSE IF modifier.kind = "item" /\ another.kind = "item"
                THEN Ret([modifier.item EXCEPT !.location = location,
                                               !.NEST = Some(<<another.item>>)])
                ELSE RetNone
    IN  matched(FullMatch(pattern_1, y))

\* 105 ON 15/10, 106 ON 29/10, ONLINE ON 05/11
pattern_4_3 ==
    Cat(<<Grp("l1", _loc), WS, Grp("m1", _mod_noname), WS, Lit(","), WS,
          Grp("l2", _loc), WS, Grp("m2", _mod_noname), WS, Lit(","), WS,
          Grp("l3", _loc), WS, Grp("m3", _mod)>>)

\* 105 ON 15/10, 106 ON 29/10
pattern_4_2 ==
    Cat(<<Grp("l1", _loc), WS, Grp("m1", _mod_noname), WS, Lit(","), WS,
          Grp("l2", _loc), WS, Grp("m2", _mod_noname)>>)

\* lines 387-399: the three-clause form of 7c
nest_4_three(y) ==
    LET matched(m) ==
            LET l1 == Call("get_location", <<Group(y, m, "l1")>>)
                m1 == Call("any_modifier", <<Group(y, m, "m1")>>)
                l2 == Call("get_location", <<Group(y, m, "l2")>>)
                m2 == Call("any_modifier", <<Group(y, m, "m2")>>)
                l3 == Call("get_location", <<Group(y, m, "l3")>>)
                m3 == Call("any_modifier", <<Group(y, m, "m3")>>)
            IN  IF ~m.ok THEN RetNone
                ELSE IF m1.kind = "raise" \/ m2.kind = "raise" \/ m3.kind = "raise" THEN Raise
                ELSE IF m1.kind = "item" /\ m2.kind = "item" /\ m3.kind = "item"
                THEN Ret([m1.item EXCEPT
                            !.location = l1,
                            !.NEST = Some(<<[m2.item EXCEPT !.location = l2],
                                            [m3.item EXCEPT !.location = l3]>>)])
                ELSE RetNone
    IN  matched(FullMatch(pattern_4_3, y))

\* 7c
nest_4(y) ==
    LET matched(m) ==
            LET l1 == Call("get_location", <<Group(y, m, "l1")>>)
                m1 == Call("any_modifier", <<Group(y, m, "m1")>>)
                l2 == Call("get_location", <<Group(y, m, "l2")>>)
                m2 == Call("any_modifier", <<Group(y, m, "m2")>>)
            IN  IF m.ok /\ (m1.kind = "raise" \/ m2.kind = "raise") THEN Raise
                ELSE IF m.ok /\ m1.kind = "item" /\ m2.kind = "item"
                THEN Ret([m1.item EXCEPT
                            !.location = l1,
                            !.NEST = Some(<<[m2.item EXCEPT !.location = l2]>>)])
                ELSE nest_4_three(y)
    IN  matched(FullMatch(pattern_4_2, y))

\* ONLINE ON 13/09, 108 ON 01/11 (STARTS AT 9:00)
pattern_2 ==
    Cat(<<Grp("location", _loc), WS, Opt(Lit("(")), Grp("modifier", _mod_noname),
          Opt(Lit(")")), WS, Lit(","), WS, Grp("another", LazyPlus(AnyChar)), WS,
          Opt(Lit("(")), Grp("common_modifier", _mod_noname), Opt(Lit(")"))>>)

\* lines 416-419: the common modifier's starts_at and till go to the nested clause
Propagate(another, common_modifier) ==
    [another EXCEPT
       !.starts_at = IF IsSet(common_modifier.starts_at)
                     THEN common_modifier.starts_at ELSE @,
       !.till = IF IsSet(common_modifier.till) THEN common_modifier.till ELSE @]

\* 7d
nest_2(y) ==
    LET matched(m) ==
            LET location == Call("get_location", <<Group(y, m, "location")>>)
                modifier == Call("any_modifier", <<Group(y, m, "modifier")>>)
                another == Call("parse_location_string", <<Group(y, m, "another"), TRUE>>)
                common_modifier == Call("any_modifier", <<Group(y, m, "common_modifier")>>)
            IN  IF ~m.ok THEN RetNone
                ELSE IF modifier.kind = "raise" \/ another.kind = "raise"
                        \/ common_modifier.kind = "raise" THEN Raise
                ELSE IF modifier.kind = "item" /\ another.kind = "item"
                        /\ common_modifier.kind = "item"
                THEN Ret([common_modifier.item EXCEPT
                            !.location = location,
                            !.on = modifier.item.on,
                            !.NEST = Some(<<Propagate(another.item, common_modifier.item)>>)])
                ELSE RetNone
    IN  matched(FullMatch(pattern_2, y))

\* 314 (312 ON 12/09,19/09,26/09) 301 ON 03/10
pattern_3 ==
    Cat(<<Grp("location", _loc), WS, Opt(Lit("(")), Grp("location2", _loc), WS,
          Grp("modifier", _mod_noname), Opt(Lit(")")), WS,
          Grp("another", Plus(AnyChar))>>)

\* 7e
nest_3(y) ==
    LET matched(m) ==
            LET location == Call("get_location", <<Group(y, m, "location")>>)
                location2 == Call("get_location", <<Group(y, m, "location2")>>)
                modifier == Call("any_modifier", <<Group(y, m, "modifier")>>)
                another == Call("parse_location_string", <<Group(y, m, "another"), TRUE>>)
            IN  IF ~m.ok THEN RetNone
                ELSE IF modifier.kind = "raise" \/ another.kind = "raise" THEN Raise
                ELSE IF modifier.kind = "item" /\ another.kind = "item"
                THEN Ret([EmptyItem EXCEPT
                            !.location = location,
                            !.NEST = Some(<<[modifier.item EXCEPT !.location = location2],
                                            another.item>>)])
                ELSE RetNone
    IN  matched(FullMatch(pattern_3, y))

\* 107 (106 НА 16.09, 105 НА 07.10) = loc (loc1 mod1, loc2 mod2)
pattern_5 ==
    Cat(<<Grp("loc", _loc), WS, Lit("("), Grp("loc1", _loc), WS,
          Grp("mod1", _mod_noname), Lit(","), WS, Grp("loc2", _loc), WS,
          Grp("mod2", _mod_noname), Lit(")")>>)

\* 7f
nest_5(y) ==
    LET matched(m) ==
            LET loc == Call("get_location", <<Group(y, m, "loc")>>)
                loc1 == Call("get_location", <<Group(y, m, "loc1")>>)
                mod1 == Call("any_modifier", <<Group(y, m, "mod1")>>)
                loc2 == Call("get_location", <<Group(y, m, "loc2")>>)
                mod2 == Call("any_modifier", <<Group(y, m, "mod2")>>)
            IN  IF ~m.ok THEN RetNone
                ELSE IF mod1.kind = "raise" \/ mod2.kind = "raise" THEN Raise
                ELSE IF mod1.kind = "item" /\ mod2.kind = "item"
                THEN Ret([EmptyItem EXCEPT
                            !.location = loc,
                            !.NEST = Some(<<[mod1.item EXCEPT !.location = loc1],
                                            [mod2.item EXCEPT !.location = loc2]>>)])
                ELSE RetNone
    IN  matched(FullMatch(pattern_5, y))

\* 317 ON 15/02, 22/02, 15/03, 22/03, 5/04, 12/04, 19/04 (ONLINE ON 26/04)
pattern_6 ==
    Cat(<<Grp("location", _loc), WS, Grp("modifier", _mod_noname), WS, Lit("("),
          Grp("location2", _loc), WS, Grp("mod2", _mod_noname), Lit(")")>>)

\* 7g
nest_6(y) ==
    LET matched(m) ==
            LET loc == Call("get_location", <<Group(y, m, "location")>>)
                mod == Call("any_modifier", <<Group(y, m, "modifier")>>)
                loc2 == Call("get_location", <<Group(y, m, "location2")>>)
                mod2 == Call("any_modifier", <<Group(y, m, "mod2")>>)
            IN  IF ~m.ok THEN RetNone
                ELSE IF mod.kind = "raise" \/ mod2.kind = "raise" THEN Raise
                ELSE IF mod.kind = "item" /\ mod2.kind = "item"
                THEN Ret([mod.item EXCEPT
                            !.location = loc,
                            !.NEST = Some(<<[mod2.item EXCEPT !.location = loc2]>>)])
                ELSE RetNone
    IN  matched(FullMatch(pattern_6, y))

\* a faulty order of the families: 7a is tried before the flat families
parse_location_string_nest_first(x0, from_parent) ==
    LET families(x) ==
            LET as_simple_nest == IF from_parent THEN RetNone ELSE simple_nest(x)
                as_location == LocationAlone(x)
                as_any_modifier == Call("any_modifier", <<x>>)
                as_location_modifier == LocationOneModifier(x)
                as_two_modifiers == Call("two_modifiers", <<x>>)
                as_location_two_modifiers == LocationTwoModifiers(x)
                as_three_modifiers == Call("three_modifiers", <<x>>)
                as_location_three_modifiers == LocationThreeModifiers(x)
                as_nest_1 == nest_1(x)
                as_nest_4 == nest_4(x)
                as_nest_2 == nest_2(x)
                as_nest_3 == nest_3(x)
                as_nest_5 == nest_5(x)
            IN  IF as_simple_nest # RetNone THEN as_simple_nest
                ELSE IF as_location # RetNone THEN as_location
                ELSE IF as_any_modifier # RetNone THEN as_any_modifier
                ELSE IF as_location_modifier # RetNone THEN as_location_modifier
                ELSE IF as_two_modifiers # RetNone THEN as_two_modifiers
                ELSE IF as_location_two_modifiers # RetNone
                THEN as_location_two_modifiers
                ELSE IF as_three_modifiers # RetNone THEN as_three_modifiers
                ELSE IF as_location_three_modifiers # RetNone
                THEN as_location_three_modifiers
                ELSE IF from_parent THEN RetNone
                ELSE IF as_nest_1 # RetNone THEN as_nest_1
                ELSE IF as_nest_4 # RetNone THEN as_nest_4
                ELSE IF as_nest_2 # RetNone THEN as_nest_2
                ELSE IF as_nest_3 # RetNone THEN as_nest_3
                ELSE IF as_nest_5 # RetNone THEN as_nest_5
                ELSE nest_6(x)
    IN  families(Normalize(x0))

\* lines 145-480: the families in the order the code tries them; what the
\* first that does not return None returns
parse_location_string(x0, from_parent) ==
    LET families(x) ==
            LET as_location == LocationAlone(x)
                as_any_modifier == Call("any_modifier", <<x>>)
                as_location_modifier == LocationOneModifier(x)
                as_two_modifiers == Call("two_modifiers", <<x>>)
                as_location_two_modifiers == LocationTwoModifiers(x)
                as_three_modifiers == Call("three_modifiers", <<x>>)
                as_location_three_modifiers == LocationThreeModifiers(x)
                as_simple_nest == simple_nest(x)
                as_nest_1 == nest_1(x)
                as_nest_4 == nest_4(x)
                as_nest_2 == nest_2(x)
                as_nest_3 == nest_3(x)
                as_nest_5 == nest_5(x)
            IN  IF as_location # RetNone THEN as_location
                ELSE IF as_any_modifier # RetNone THEN as_any_modifier
                ELSE IF as_location_modifier # RetNone THEN as_location_modifier
                ELSE IF as_two_modifiers # RetNone THEN as_two_modifiers
                ELSE IF as_location_two_modifiers # RetNone
                THEN as_location_two_modifiers
                ELSE IF as_three_modifiers # RetNone THEN as_three_modifiers
                ELSE IF as_location_three_modifiers # RetNone
                THEN as_location_three_modifiers
                ELSE IF from_parent THEN RetNone
                ELSE IF as_simple_nest # RetNone THEN as_simple_nest
                ELSE IF as_nest_1 # RetNone THEN as_nest_1
                ELSE IF as_nest_4 # RetNone THEN as_nest_4
                ELSE IF as_nest_2 # RetNone THEN as_nest_2
                ELSE IF as_nest_3 # RetNone THEN as_nest_3
                ELSE IF as_nest_5 # RetNone THEN as_nest_5
                ELSE nest_6(x)
    IN  families(Normalize(x0))

\* the closure named f applied to the arguments a
Call(f, a) ==
    CASE f = "get_location" /\ Len(a) = 1 -> get_location(a[1])
      [] f = "any_modifier" /\ Len(a) = 1 -> any_modifier(a[1])
      [] f = "two_modifiers" /\ Len(a) = 1 -> two_modifiers(a[1])
      [] f = "three_modifiers" /\ Len(a) = 1 -> three_modifiers(a[1])
      [] f = "parse_location_string" /\ Len(a) = 2 -> parse_location_string(a[1], a[2])

(***************************************************************************)
(* Calendar arithmetic of datetime.date, datetime.time and                 *)
(* datetime.datetime.  A date is <<year, month, day>>, a time is           *)
(* <<hour, minute>>, a datetime is <<year, month, day, hour, minute>>.     *)
(***************************************************************************)
DaysBeforeYear(y) ==
    (y - 1) * 365 + (y - 1) \div 4 - (y - 1) \div 100 + (y - 1) \div 400

\* the days of year y before the first day of month m
DaysBeforeMonth(y, m) ==
    <<0, 31, 59, 90, 120, 151, 181, 212, 243, 273, 304, 334>>[m]
    + (IF m > 2 /\ IsLeap(y) THEN 1 ELSE 0)

\* date.toordinal(): 1 is 0001-01-01
Ord(d) == DaysBeforeYear(d[1]) + DaysBeforeMonth(d[1], d[2]) + d[3]

\* date.max.toordinal(), 9999-12-31
MaxOrd == DaysBeforeYear(10000)

\* the date of the n-th day (from 0) of year y
MonthOfDay(y, n) ==
    LET m == CHOOSE k \in 1..12 :
                 /\ DaysBeforeMonth(y, k) <= n
                 /\ n < DaysBeforeMonth(y, k) + DaysInMonth(y, k)
    IN  <<y, m, n - DaysBeforeMonth(y, m) + 1>>

\* date.fromordinal(n)
FromOrd(n) ==
    LET n0 == n - 1
        n400 == n0 \div 146097
        r400 == n0 % 146097
        n100 == r400 \div 36524
        r100 == r400 % 36524
        n4 == r100 \div 1461
        r4 == r100 % 1461
        n1 == r4 \div 365
        r1 == r4 % 365
        y == n400 * 400 + n100 * 100 + n4 * 4 + n1 + 1
    IN  IF n1 = 4 \/ n100 = 4 THEN <<y - 1, 12, 31>> ELSE MonthOfDay(y, r1)

\* date.weekday(): 0 is Monday
WeekdayOf(d) == (Ord(d) + 6) % 7

\* d + datetime.timedelta(days=n): OverflowError outside date.min..date.max
DateAdd(d, n) ==
    IF Ord(d) + n < 1 \/ Ord(d) + n > MaxOrd THEN Raise
    ELSE [kind |-> "item", item |-> FromOrd(Ord(d) + n)]

DateLe(a, b) == Ord(a) <= Ord(b)

Minutes(t) == t[1] * 60 + t[2]

\* datetime.datetime.combine(d, t)
Combine(d, t) == <<d[1], d[2], d[3], t[1], t[2]>>

\* dt.replace(day=on.day, month=on.month): ValueError when the year of dt has
\* no such day
ReplaceDayMonth(dt, on_) ==
    IF ValidDate(dt[1], on_[2], on_[3])
    THEN [kind |-> "item", item |-> <<dt[1], on_[2], on_[3], dt[4], dt[5]>>]
    ELSE Raise

\* dt.replace(hour=t.hour, minute=t.minute)
ReplaceTime(dt, t) == <<dt[1], dt[2], dt[3], t[1], t[2]>>

\* dt + datetime.timedelta(minutes=n)
DateTimeAdd(dt, n) ==
    LET total == dt[4] * 60 + dt[5] + n
        days == IF total >= 0 THEN total \div 1440 ELSE -((1439 - total) \div 1440)
        rest == total - days * 1440
        d == DateAdd(<<dt[1], dt[2], dt[3]>>, days)
    IN  IF d.kind = "raise" THEN Raise
        ELSE [kind |-> "item",
              item |-> <<d.item[1], d.item[2], d.item[3], rest \div 60, rest % 60>>]

\* a faulty nearest_weekday, which goes back to the weekday on or before date
nearest_weekday_before(date, day) == DateAdd(date, -((WeekdayOf(date) - day + 7) % 7))

\* a faulty nearest_weekday, which never returns the date it is given
nearest_weekday_after(date, day) == DateAdd(date, ((day - WeekdayOf(date) + 6) % 7) + 1)

\* nearest_weekday(date, day), utils.py:77-93
nearest_weekday(date, day) == DateAdd(date, (day - WeekdayOf(date) + 7) % 7)

\* sorted(S) for a set S of dates
SortDates(S) ==
    [k \in 1..Cardinality(S) |->
        CHOOSE d \in S : Cardinality({e \in S : Ord(e) < Ord(d)}) = k - 1]

Range1(sq) == {sq[i] : i \in 1..Len(sq)}

(***************************************************************************)
(* The materializer, generate_vevents.  An event (the slot) is a record    *)
(* with the fields of CoreCourseEvent; a vevent is a record of the         *)
(* properties generate_vevents sets.  A generator's outcome is the list    *)
(* of the vevents it yielded and whether it ended with an exception.       *)
(***************************************************************************)
CoreCourseEvent(weekday, start_time, end_time, starts, ends, location, location_item) ==
    [weekday |-> weekday, start_time |-> start_time, end_time |-> end_time,
     starts |-> starts, ends |-> ends, location |-> location,
     location_item |-> location_item]

Yielded(vs) == [kind |-> "ok", vevents |-> vs]

Raised(vs) == [kind |-> "raise", vevents |-> vs]

\* every_week_rule(event): the UNTIL date of the weekly rule
every_week_rule(event) == event.ends

\* get_uid(event, sequence): the part of the uid before the hash of the event
get_uid(sequence) == sequence

\* truth value of an optional list or string: None and empty are false
Truthy(f) == IsSet(f) /\ f[1] # <<>>

\* the body of convert_weeks_on_to_only_on(item)
convert_weeks_on_to_only_on(event, item) ==
    LET weeks == IF Truthy(item.on_weeks) THEN item.on_weeks[1] ELSE <<>>
        base == nearest_weekday(event.starts, event.weekday)
        ons == [i \in 1..Len(weeks) |->
                   IF base.kind = "raise" THEN Raise
                   ELSE DateAdd(base.item, 7 * (weeks[i] - 1))]
        dates == [i \in 1..Len(weeks) |-> ons[i].item]
        on1 == IF weeks = <<>> THEN item.on
               ELSE IF Truthy(item.on) THEN Some(item.on[1] \o dates)
               ELSE Some(dates)
        on2 == IF Truthy(on1) THEN Some(SortDates(Range1(on1[1]))) ELSE on1
    IN  IF \E i \in 1..Len(weeks) : ons[i].kind = "raise" THEN Raise
        ELSE Ret([item EXCEPT !.on = on2])

\* a faulty range test, which holds for every date
InRangeAlways(event, on_) == TRUE

InRange(event, on_) == DateLe(event.starts, on_) /\ DateLe(on_, event.ends)

\* [dt.replace(day=on.day, month=on.month) for on in ons]
ReplaceEach(dt, ons) == [i \in 1..Len(ons) |-> ReplaceDayMonth(dt, ons[i])]

AnyRaise(outs) == \E i \in 1..Len(outs) : outs[i].kind = "raise"

Items(outs) == [i \in 1..Len(outs) |-> outs[i].item]

\* the first i with outs[i] an exception, Len(outs) + 1 if there is none
FirstRaise(outs) ==
    IF AnyRaise(outs)
    THEN CHOOSE i \in 1..Len(outs) :
             /\ outs[i].kind = "raise"
             /\ \A j \in 1..(i - 1) : outs[j].kind # "raise"
    ELSE Len(outs) + 1

\* lines 213-222 and 241-250: the location and the times of a copy of the
\* root vevent adapted to the nested item
Adapt(vevent_copy, item, _dtstart, _dtend, duration) ==
    LET loc == IF Truthy(item.location) THEN item.location ELSE vevent_copy.location
        s1 == IF IsSet(item.starts_at) THEN ReplaceTime(_dtstart, item.starts_at[1])
              ELSE _dtstart
        e1 == IF IsSet(item.starts_at) THEN DateTimeAdd(s1, duration)
              ELSE [kind |-> "item", item |-> _dtend]
        e2 == IF IsSet(item.till) THEN ReplaceTime(e1.item, item.till[1]) ELSE e1.item
    IN  IF e1.kind = "raise" THEN Raise
        ELSE [kind |-> "item",
              item |-> [vevent_copy EXCEPT !.location = loc, !.dtstart = s1,
                                           !.dtend = e2]]

VEvent(location, uid, dtstart, dtend, rrule, rdate, exdate, recurrence_id, sequence) ==
    [location |-> location, uid |-> uid, dtstart |-> dtstart, dtend |-> dtend,
     rrule |-> rrule, rdate |-> rdate, exdate |-> exdate,
     recurrence_id |-> recurrence_id, sequence |-> sequence]

\* lines 80-101: the event has no parsed location item
WithoutItem(event) ==
    LET start_of_weekdays == nearest_weekday(event.starts, event.weekday)
    IN  IF start_of_weekdays.kind = "raise" THEN Raised(<<>>)
        ELSE Yielded(<<VEvent(IF Truthy(event.location) THEN event.location ELSE None,
                              get_uid("x"),
                              Combine(start_of_weekdays.item, event.start_time),
                              Combine(start_of_weekdays.item, event.end_time),
                              Some(every_week_rule(event)), None, None, None, None)>>)

\* a faulty Overrides, which yields the root vevent before the overriding ones
OverridesRootFirst(event, vevent, nested_on, duration) ==
    LET pairs == Flatten([i \in 1..Len(nested_on) |->
                     [j \in 1..Len(nested_on[i].on[1]) |->
                         <<nested_on[i], nested_on[i].on[1][j]>>]])
        kept == SelectSeq(pairs, LAMBDA p : InRange(event, p[2]))
        One(k) ==
            LET item == kept[k][1]
                on_ == kept[k][2]
                _recurrence_id == ReplaceDayMonth(vevent.dtstart, on_)
                _dtend == ReplaceDayMonth(vevent.dtend, on_)
            IN  IF _recurrence_id.kind = "raise" \/ _dtend.kind = "raise" THEN Raise
                ELSE Adapt([vevent EXCEPT !.recurrence_id = Some(_recurrence_id.item),
                                          !.sequence = Some(k), !.rrule = None],
                           item, _recurrence_id.item, _dtend.item, duration)
        outs == [k \in 1..Len(kept) |-> One(k)]
        n == FirstRaise(outs)
    IN  IF n <= Len(outs) THEN Raised(Items(SubSeq(outs, 1, n - 1)))
        ELSE Yielded(<<vevent>> \o Items(outs))

\* a faulty Overrides, in which a date out of the range of the slot takes a
\* sequence number too
OverridesCountAll(event, vevent, nested_on, duration) ==
    LET pairs == Flatten([i \in 1..Len(nested_on) |->
                     [j \in 1..Len(nested_on[i].on[1]) |->
                         <<nested_on[i], nested_on[i].on[1][j]>>]])
        kept == SelectSeq([k \in 1..Len(pairs) |-> <<pairs[k][1], pairs[k][2], k>>],
                          LAMBDA p : InRange(event, p[2]))
        One(k) ==
            LET item == kept[k][1]
                on_ == kept[k][2]
                _recurrence_id == ReplaceDayMonth(vevent.dtstart, on_)
                _dtend == ReplaceDayMonth(vevent.dtend, on_)
            IN  IF _recurrence_id.kind = "raise" \/ _dtend.kind = "raise" THEN Raise
                ELSE Adapt([vevent EXCEPT !.recurrence_id = Some(_recurrence_id.item),
                                          !.sequence = Some(kept[k][3]), !.rrule = None],
                           item, _recurrence_id.item, _dtend.item, duration)
        outs == [k \in 1..Len(kept) |-> One(k)]
        n == FirstRaise(outs)
    IN  IF n <= Len(outs) THEN Raised(Items(SubSeq(outs, 1, n - 1)))
        ELSE Yielded(Items(outs) \o <<vevent>>)

\* lines 197-223: one overriding vevent per date of the nested items, numbered
\* in the order they are yielded
Overrides(event, vevent, nested_on, duration) ==
    LET pairs == Flatten([i \in 1..Len(nested_on) |->
                     [j \in 1..Len(nested_on[i].on[1]) |->
                         <<nested_on[i], nested_on[i].on[1][j]>>]])
        kept == SelectSeq(pairs, LAMBDA p : InRange(event, p[2]))
        One(k) ==
            LET item == kept[k][1]
                on_ == kept[k][2]
                _recurrence_id == ReplaceDayMonth(vevent.dtstart, on_)
                _dtend == ReplaceDayMonth(vevent.dtend, on_)
            IN  IF _recurrence_id.kind = "raise" \/ _dtend.kind = "raise" THEN Raise
                ELSE Adapt([vevent EXCEPT !.recurrence_id = Some(_recurrence_id.item),
                                          !.sequence = Some(k), !.rrule = None],
                           item, _recurrence_id.item, _dtend.item, duration)
        outs == [k \in 1..Len(kept) |-> One(k)]
        n == FirstRaise(outs)
    IN  IF n <= Len(outs) THEN Raised(Items(SubSeq(outs, 1, n - 1)))
        ELSE Yielded(Items(outs) \o <<vevent>>)

\* lines 228-252: one vevent per nested item that has dates in the range
Siblings(event, vevent, nested_on, duration) ==
    LET One(i) ==
            LET item == nested_on[i]
                rdates == ReplaceEach(vevent.dtstart,
                                      SelectSeq(item.on[1], LAMBDA d : InRange(event, d)))
                _dtstart == ReplaceDayMonth(vevent.dtstart, item.on[1][1])
                _dtend == ReplaceDayMonth(vevent.dtend, item.on[1][1])
            IN  IF AnyRaise(rdates) THEN [kind |-> "raise"]
                ELSE IF rdates = <<>> THEN [kind |-> "skip"]
                ELSE IF _dtstart.kind = "raise" \/ _dtend.kind = "raise"
                THEN [kind |-> "raise"]
                ELSE Adapt([vevent EXCEPT !.uid = get_uid(ToString(i - 1)),
                                          !.rdate = Some(Items(rdates))],
                           item, _dtstart.item, _dtend.item, duration)
        outs == [i \in 1..Len(nested_on) |-> One(i)]
        n == FirstRaise(outs)
        done == SelectSeq(SubSeq(outs, 1, n - 1), LAMBDA o : o.kind = "item")
    IN  IF n <= Len(outs) THEN Raised(<<vevent>> \o Items(done))
        ELSE Yielded(<<vevent>> \o Items(done))

\* a faulty handling of the nested items, which yields a vevent at the
\* location of each nested item without dates
WithNestedUndated(event, location_item, vevent, duration) ==
    LET NEST == IF Truthy(location_item.NEST) THEN location_item.NEST[1] ELSE <<>>
        converted == [i \in 1..Len(NEST) |-> convert_weeks_on_to_only_on(event, NEST[i])]
        nested_on == SelectSeq(Items(converted), LAMBDA item : Truthy(item.on))
        extra_nested == SelectSeq(Items(converted), LAMBDA item : ~Truthy(item.on))
        out == IF IsSet(vevent.rrule) THEN Overrides(event, vevent, nested_on, duration)
               ELSE Siblings(event, vevent, nested_on, duration)
    IN  IF AnyRaise(converted) THEN Raised(<<>>)
        ELSE IF NEST = <<>> THEN Yielded(<<vevent>>)
        ELSE [out EXCEPT !.vevents =
                @ \o [i \in 1..Len(extra_nested) |->
                         [vevent EXCEPT !.location = extra_nested[i].location]]]

\* lines 175-252: the root vevent and the vevents of the nested items
WithNested(event, location_item, vevent, duration) ==
    LET NEST == IF Truthy(location_item.NEST) THEN location_item.NEST[1] ELSE <<>>
        converted == [i \in 1..Len(NEST) |-> convert_weeks_on_to_only_on(event, NEST[i])]
        nested_on == SelectSeq(Items(converted), LAMBDA item : Truthy(item.on))
    IN  IF AnyRaise(converted) THEN Raised(<<>>)
        ELSE IF NEST = <<>> THEN Yielded(<<vevent>>)
        ELSE IF IsSet(vevent.rrule) THEN Overrides(event, vevent, nested_on, duration)
        ELSE Siblings(event, vevent, nested_on, duration)

\* lines 153-173: the root vevent, on its dates or every week
RootVEvent(event, location_item, location, dtstart, dtend) ==
    LET ons == IF Truthy(location_item.on) THEN location_item.on[1] ELSE <<>>
        rdates == ReplaceEach(dtstart, SelectSeq(ons, LAMBDA d : InRange(event, d)))
        dtstart1 == IF ons = <<>> THEN [kind |-> "item", item |-> dtstart]
                    ELSE ReplaceDayMonth(dtstart, ons[1])
        dtend1 == IF ons = <<>> THEN [kind |-> "item", item |-> dtend]
                  ELSE ReplaceDayMonth(dtend, ons[1])
        exdates == IF Truthy(location_item.except_) /\ dtstart1.kind = "item"
                   THEN ReplaceEach(dtstart1.item, location_item.except_[1])
                   ELSE <<>>
    IN  IF ons # <<>> /\ AnyRaise(rdates) THEN [kind |-> "raise"]
        ELSE IF ons # <<>> /\ rdates = <<>> THEN [kind |-> "return"]
        ELSE IF dtstart1.kind = "raise" \/ dtend1.kind = "raise" \/ AnyRaise(exdates)
        THEN [kind |-> "raise"]
        ELSE [kind |-> "item",
              item |-> VEvent(IF Truthy(location) THEN location ELSE None,
                              get_uid("x"), dtstart1.item, dtend1.item,
                              IF ons = <<>> THEN Some(every_week_rule(event)) ELSE None,
                              IF ons = <<>> THEN None ELSE Some(Items(rdates)),
                              IF Truthy(location_item.except_) THEN Some(Items(exdates))
                              ELSE None,
                              None, None)]

\* a faulty generate_vevents, in which the end moved by starts_at overrides till
generate_vevents_shift_wins(event) ==
    IF ~IsSet(event.location_item) THEN WithoutItem(event)
    ELSE
    LET location_item == event.location_item[1]
        location == IF Truthy(location_item.location) THEN location_item.location
                    ELSE event.location
        starts == IF IsSet(location_item.starts_from) THEN location_item.starts_from[1]
                  ELSE event.starts
        moved == IF IsSet(location_item.starts_at)
                 THEN DateTimeAdd(Combine(starts, location_item.starts_at[1]),
                                  Minutes(event.end_time) - Minutes(event.start_time))
                 ELSE [kind |-> "item", item |-> Combine(starts, event.end_time)]
        start_time == IF IsSet(location_item.starts_at) THEN location_item.starts_at[1]
                      ELSE event.start_time
        end_time == IF IsSet(location_item.till) /\ ~IsSet(location_item.starts_at)
                    THEN location_item.till[1]
                    ELSE <<moved.item[4], moved.item[5]>>
        converted == convert_weeks_on_to_only_on(event, location_item)
        start_of_weekdays == nearest_weekday(starts, event.weekday)
        dtstart == Combine(start_of_weekdays.item, start_time)
        dtend == Combine(start_of_weekdays.item, end_time)
        duration == Minutes(end_time) - Minutes(start_time)
        vevent == RootVEvent(event, converted.item, location, dtstart, dtend)
    IN  IF \/ moved.kind = "raise"
           \/ converted.kind = "raise"
           \/ start_of_weekdays.kind = "raise"
           \/ vevent.kind = "raise"
        THEN Raised(<<>>)
        ELSE IF vevent.kind = "return" THEN Yielded(<<>>)
        ELSE WithNested(event, converted.item, vevent.item, duration)

\* generate_vevents(event)
generate_vevents(event) ==
    IF ~IsSet(event.location_item) THEN WithoutItem(event)
    ELSE
    LET location_item == event.location_item[1]
        location == IF Truthy(location_item.location) THEN location_item.location
                    ELSE event.location
        starts == IF IsSet(location_item.starts_from) THEN location_item.starts_from[1]
                  ELSE event.starts
        moved == IF IsSet(location_item.starts_at)
                 THEN DateTimeAdd(Combine(starts, location_item.starts_at[1]),
                                  Minutes(event.end_time) - Minutes(event.start_time))
                 ELSE [kind |-> "item", item |-> Combine(starts, event.end_time)]
        start_time == IF IsSet(location_item.starts_at) THEN location_item.starts_at[1]
                      ELSE event.start_time
        end_time == IF IsSet(location_item.till) THEN location_item.till[1]
                    ELSE <<moved.item[4], moved.item[5]>>
        converted == convert_weeks_on_to_only_on(event, location_item)
        start_of_weekdays == nearest_weekday(starts, event.weekday)
        dtstart == Combine(start_of_weekdays.item, start_time)
        dtend == Combine(start_of_weekdays.item, end_time)
        duration == Minutes(end_time) - Minutes(start_time)
        vevent == RootVEvent(event, converted.item, location, dtstart, dtend)
    IN  IF \/ moved.kind = "raise"
           \/ converted.kind = "raise"
           \/ start_of_weekdays.kind = "raise"
           \/ vevent.kind = "raise"
        THEN Raised(<<>>)
        ELSE IF vevent.kind = "return" THEN Yielded(<<>>)
        ELSE WithNested(event, converted.item, vevent.item, duration)

\* the children of a location item as lines 177-184 leave them: the loop
\* converts them in order and stops at the first exception
ConvertedNest(event, NEST) ==
    LET converted == [i \in 1..Len(NEST) |-> convert_weeks_on_to_only_on(event, NEST[i])]
        n == FirstRaise(converted)
    IN  [i \in 1..Len(NEST) |-> IF i < n THEN converted[i].item ELSE NEST[i]]

\* event.location_item when generate_vevents(event) has run to its end:
\* convert_weeks_on_to_only_on assigns to item.on of the root item (line 131)
\* and of each nested item (line 179), and the statements between and after
\* them return or raise as in generate_vevents
location_item_after(event) ==
    IF ~IsSet(event.location_item) THEN event.location_item
    ELSE
    LET location_item == event.location_item[1]
        location == IF Truthy(location_item.location) THEN location_item.location
                    ELSE event.location
        starts == IF IsSet(location_item.starts_from) THEN location_item.starts_from[1]
                  ELSE event.starts
        moved == IF IsSet(location_item.starts_at)
                 THEN DateTimeAdd(Combine(starts, location_item.starts_at[1]),
                                  Minutes(event.end_time) - Minutes(event.start_time))
                 ELSE [kind |-> "item", item |-> Combine(starts, event.end_time)]
        start_time == IF IsSet(location_item.starts_at) THEN location_item.starts_at[1]
                      ELSE event.start_time
        end_time == IF IsSet(location_item.till) THEN location_item.till[1]
                    ELSE <<moved.item[4], moved.item[5]>>
        converted == convert_weeks_on_to_only_on(event, location_item)
        start_of_weekdays == nearest_weekday(starts, event.weekday)
        dtstart == Combine(start_of_weekdays.item, start_time)
        dtend == Combine(start_of_weekdays.item, end_time)
        vevent == RootVEvent(event, converted.item, location, dtstart, dtend)
    IN  IF moved.kind = "raise" \/ converted.kind = "raise" THEN event.location_item
        ELSE IF start_of_weekdays.kind = "raise" \/ vevent.kind # "item"
        THEN Some(converted.item)
        ELSE IF ~Truthy(converted.item.NEST) THEN Some(converted.item)
        ELSE Some([converted.item EXCEPT
                      !.NEST = Some(ConvertedNest(event, converted.item.NEST[1]))])

(***************************************************************************)
(* The cell texts the model runs the parser on.                            *)
(***************************************************************************)
\* one text of each kind of location atom, get_location lines 157-170
Locations ==
    {<<"3", "1", "3">>, <<"?">>, <<"ROOM", " ", "#", "1", "0", "7">>,
     <<"ONLINE">>, <<"RU_ONLINE">>, <<"ONLINE", " ", "(", "TBA", ")">>}

\* location atoms as cells spell them, and texts that are no location
OtherLocations ==
    {<<"online">>, <<" ", "1", "0", "8", " ">>, <<"(", "ONLINE", ")">>,
     <<"ROOM", " ", "7">>, <<"RU_ONLINE", "(", "TBA", ")">>, <<"ROOM">>,
     <<"TBA">>, <<>>}

\* modifier atoms of each kind, with dates and times that do not exist
StartsFromAtoms ==
    {<<"FROM", " ", "2", "1", "/", "0", "9">>,
     <<"STARTS", " ", "FROM", " ", "2", "9", "/", "0", "2">>,
     <<"RU_S", " ", "1", ".", "3">>,
     <<"STARTS", " ", "ON", " ", "3", "1", "/", "0", "4">>}

StartsAtAtoms ==
    {<<"STARTS", " ", "AT", " ", "9", ":", "0", "0">>,
     <<"STARTS", " ", "1", "8", ":", "0", "0">>,
     <<"RU_NACHALO", " ", "RU_V", " ", "9", ".", "3", "0">>,
     <<"STARTS", " ", "AT", " ", "2", "5", ":", "0", "0">>,
     <<"STARTS", " ", "AT", " ", "8", ":", "0", "0">>,
     <<"STARTS", " ", "AT", " ", "2", "3", ":", "0", "0">>}

OnAtoms ==
    {<<"ON", " ", "1", "3", "/", "0", "9">>,
     <<"ONLY", " ", "ON", " ", "1", "3", "/", "0", "9", ",", " ", "2", "0", "/", "0", "9">>,
     <<"RU_TOLKO", " ", "RU_NA", " ", "2", "0", ".", "0", "9">>,
     <<"ON", " ", "2", "9", "/", "0", "2">>,
     <<"ON", " ", "3", "1", "/", "0", "2">>,
     <<"ON", " ", "1", "/", "1", "3">>,
     <<"ON", " ", "0", "1", "/", "1", "1">>}

TillAtoms ==
    {<<"TILL", " ", "1", "8", ":", "0", "0">>,
     <<"TILL", " ", "2", "1", ":", "3", "0">>,
     <<"TILL", " ", "1", "0", ":", "6", "1">>}

ExceptAtoms ==
    {<<"EXCEPT", " ", "3", "0", "/", "0", "1">>,
     <<"RU_KROME", " ", "3", "0", "/", "0", "1", ",", " ", "0", "6", "/", "0", "2">>,
     <<"EXCEPT", " ", "2", "9", "/", "0", "2">>}

WeekAtoms ==
    {<<"WEEK", " ", "2">>, <<"WEEK", " ", "1", "-", "3", " ", "ONLY">>,
     <<"WEEK", " ", "5", "0", "0", "0", "0", "0">>}

\* the atoms combined two by two
PairAtoms ==
    {<<"FROM", " ", "2", "1", "/", "0", "9">>,
     <<"STARTS", " ", "AT", " ", "9", ":", "0", "0">>,
     <<"STARTS", " ", "AT", " ", "8", ":", "0", "0">>,
     <<"ON", " ", "1", "3", "/", "0", "9">>,
     <<"ONLY", " ", "ON", " ", "1", "3", "/", "0", "9", ",", " ", "2", "0", "/", "0", "9">>,
     <<"TILL", " ", "1", "8", ":", "0", "0">>,
     <<"EXCEPT", " ", "3", "0", "/", "0", "1">>, <<"WEEK", " ", "2">>,
     <<"WEEK", " ", "1", "-", "3", " ", "ONLY">>,
     <<"ON", " ", "3", "1", "/", "0", "2">>}

\* the atoms combined three by three
TripleAtoms ==
    {<<"STARTS", " ", "AT", " ", "9", ":", "0", "0">>,
     <<"ON", " ", "1", "3", "/", "0", "9">>,
     <<"TILL", " ", "1", "8", ":", "0", "0">>, <<"WEEK", " ", "2">>}

\* the locations and atoms of the clauses of the nesting families
NestLocations ==
    {<<"1", "0", "8">>, <<"ONLINE">>}

NestAtoms ==
    {<<"ON", " ", "1", "3", "/", "0", "9">>,
     <<"ON", " ", "2", "0", "/", "0", "9", ",", " ", "2", "7", "/", "0", "9">>,
     <<"STARTS", " ", "AT", " ", "8", ":", "0", "0">>,
     <<"TILL", " ", "1", "8", ":", "0", "0">>, <<"WEEK", " ", "2">>}

CommonAtoms ==
    {<<"STARTS", " ", "AT", " ", "9", ":", "0", "0">>,
     <<"TILL", " ", "2", "1", ":", "3", "0">>,
     <<"ON", " ", "0", "1", "/", "1", "1">>}

\* the cell texts of tests/test_location_strings.py (a word that is not in the
\* lower-case vocabulary is written in upper case)
Cases ==
    {<<"3", "0", "3">>, <<"room", " ", "1", "0", "7">>,
     <<"room", " ", "#", "1", "0", "7">>, <<"ROOM", " ", "#", "1", "0", "7">>,
     <<"ONLINE">>, <<"RU_ONLINE">>, <<"online">>,
     <<"1", "0", "6", "/", "3", "1", "3", "/", "3", "1", "4", "/", "3", "1", "6", "/", "3", "1", "8", "/", "3", "2", "0", "/", "4", "2", "1">>,
     <<"1", "0", "5", "/", " ", "(", "ONLINE", ")">>,
     <<"STARTS", " ", "ON", " ", "2", "/", "1", "0">>,
     <<"STARTS", " ", "FROM", " ", "2", "1", "/", "0", "9">>,
     <<"3", "0", "4", " ", "STARTS", " ", "FROM", " ", "1", "9", "/", "0", "9">>,
     <<"3", "1", "3", " ", "(", "STARTS", " ", "FROM", " ", "2", "1", "/", "0", "9", ")">>,
     <<"STARTS", " ", "AT", " ", "1", "6", ".", "1", "0">>,
     <<"1", "0", "7", " ", "STARTS", " ", "AT", " ", "1", "6", ".", "1", "0">>,
     <<"1", "0", "7", " ", "(", "STARTS", " ", "AT", " ", "1", "0", ".", "5", "0", ")">>,
     <<"WEEK", " ", "2", "-", "4", " ", "ONLY">>,
     <<"1", "0", "5", " ", "(", "WEEK", " ", "2", "-", "3", " ", "ONLY", ")">>,
     <<"1", "0", "5", " ", "(", "WEEK", " ", "2", ",", " ", "4", " ", "ONLY", ")">>,
     <<"1", "0", "5", " ", "(", "WEEK", " ", "2", " ", "ONLY", ")">>,
     <<"1", "0", "5", " ", "(", "WEEK", " ", "2", ")">>,
     <<"ON", " ", "1", "3", "/", "0", "9">>,
     <<"ONLY", " ", "ON", " ", "1", "3", "/", "0", "9">>,
     <<"RU_TOLKO", " ", "RU_NA", " ", "1", "3", "/", "0", "9">>,
     <<"RU_NA", " ", "1", "3", "/", "0", "9">>,
     <<"ONLY", " ", "ON", " ", "1", "3", "/", "0", "9", ",", " ", "2", "0", "/", "0", "9">>,
     <<"RU_NA", " ", "1", "3", "/", "0", "9", ",", " ", "2", "0", "/", "0", "9">>,
     <<"ON", " ", "2", "2", "/", "0", "1", " ", "2", "9", "/", "0", "1">>,
     <<"ON", " ", "1", "3", ".", "0", "9", " ", "2", "0", ".", "0", "9">>,
     <<"ON", " ", "1", "3", "/", "0", "9", " ", " ", "2", "0", "/", "0", "9">>,
     <<"ONLINE", " ", "ON", " ", "1", "3", "/", "0", "9">>,
     <<"(", "ONLY", " ", "ON", " ", "1", "0", "/", "1", "0", ")">>,
     <<"1", "0", "7", " ", "(", "ONLY", " ", "ON", " ", "8", "/", "0", "9", ",", " ", "2", "9", "/", "0", "9", ",", " ", "2", "7", "/", "1", "0", ",", " ", "1", "7", "/", "1", "1", ")">>,
     <<"1", "0", "7", " ", "(", "ON", " ", "8", "/", "0", "9", ",", " ", "2", "9", "/", "0", "9", ",", " ", "2", "7", "/", "1", "0", ",", " ", "1", "7", "/", "1", "1", ")">>,
     <<"ONLINE", " ", "(", "ONLY", " ", "ON", " ", "3", "1", "/", "0", "8", " ", "AND", " ", "1", "4", "/", "0", "9", ")">>,
     <<"TILL", " ", "1", "8", ":", "0", "0">>,
     <<"1", "0", "7", " ", "(", "TILL", " ", "1", "8", ":", "0", "0", ")">>,
     <<"STARTS", " ", "AT", " ", "1", "8", ":", "0", "0", " ", "TILL", " ", "2", "1", ":", "0", "0">>,
     <<"TILL", " ", "2", "1", ":", "0", "0", " ", "STARTS", " ", "AT", " ", "1", "8", ":", "0", "0">>,
     <<"(", "STARTS", " ", "AT", " ", "1", "8", ":", "0", "0", ")", " ", "TILL", " ", "2", "1", ":", "0", "0">>,
     <<"ON", " ", "1", "3", "/", "0", "9", " ", "STARTS", " ", "AT", " ", "1", "8", ":", "0", "0">>,
     <<"ONLINE", " ", "ON", " ", "1", "3", "/", "0", "9", " ", "STARTS", " ", "AT", " ", "1", "8", ":", "0", "0">>,
     <<"1", "0", "7", " ", "(", "TILL", " ", "2", "1", ":", "0", "0", ")", " ", "STARTS", " ", "AT", " ", "1", "8", ":", "0", "0">>,
     <<"3", "1", "7", " ", "(", "4", "2", "1", " ", "ON", " ", "1", "1", "/", "1", "0", ")">>,
     <<"1", "1", "1", " ", "(", "1", "0", "6", " ", "ON", " ", "2", "2", "/", "0", "1", " ", "2", "9", "/", "0", "1", ")">>,
     <<"1", "0", "5", " ", "(", "room", " ", "#", "1", "0", "7", " ", "on", " ", "2", "8", "/", "0", "8", ")">>,
     <<"3", "1", "3", " ", "(", "WEEK", " ", "1", "-", "3", ")", " ", "/", " ", "ONLINE">>,
     <<"ONLINE", " ", "ON", " ", "1", "3", "/", "0", "9", ",", " ", "1", "0", "8", " ", "ON", " ", "0", "1", "/", "1", "1", " ", "(", "STARTS", " ", "AT", " ", "9", ":", "0", "0", ")">>,
     <<"3", "1", "4", " ", "(", "3", "1", "2", " ", "ON", " ", "1", "2", "/", "0", "9", ",", "1", "9", "/", "0", "9", ",", "2", "6", "/", "0", "9", ")", " ", "3", "0", "1", " ", "ON", " ", "0", "3", "/", "1", "0">>,
     <<"1", "0", "7", " ", "(", "STARTS", " ", "AT", " ", "1", "8", ":", "0", "0", ")", " ", "TILL", " ", "2", "1", ":", "0", "0">>,
     <<"1", "0", "5", " ", "ON", " ", "1", "5", "/", "1", "0", ",", " ", "1", "0", "6", " ", "ON", " ", "2", "9", "/", "1", "0", ",", " ", "ONLINE", " ", "ON", " ", "0", "5", "/", "1", "1">>,
     <<"1", "0", "7", " ", "(", "1", "0", "6", " ", "RU_NA", " ", "1", "6", ".", "0", "9", ",", " ", "1", "0", "5", " ", "RU_NA", " ", "0", "7", ".", "1", "0", ")">>,
     <<"3", "1", "3", " ", "(", "1", "0", "5", " ", "ON", " ", "1", "8", "/", "0", "9", ",", " ", "0", "9", "/", "1", "0", ",", " ", "2", "3", "/", "1", "0", ",", " ", "3", "0", "/", "1", "0", ")">>,
     <<"ONLINE", " ", "ON", " ", "1", "1", "/", "0", "9", ",", " ", "3", "1", "3", " ", "ON", " ", "3", "0", "/", "1", "0">>,
     <<"3", "0", "1", " ", "(", "ON", " ", "1", "5", "/", "1", "0", ",", " ", "2", "9", "/", "1", "0", ",", " ", "0", "5", "/", "1", "1", ")">>,
     <<"RU_ONLINE", " ", "(", "RU_S", " ", "2", "5", ".", "0", "9", ")">>,
     <<"RU_ONLINE", " ", "(", "RU_TOLKO", " ", "0", "4", "/", "1", "0", ",", " ", "1", "8", "/", "1", "0", ",", " ", "0", "1", "/", "1", "1", ",", " ", "1", "5", "/", "1", "1", ")">>,
     <<"RU_ONLINE", " ", "(", "RU_TOLKO", " ", "2", "7", "/", "0", "9", ",", " ", "1", "1", "/", "1", "0", ",", " ", "2", "5", "/", "1", "0", ",", " ", "0", "8", "/", "1", "1", ",", " ", "2", "2", "/", "1", "1", ",", " ", "0", "6", "/", "1", "2", ",", " ", "2", "0", "/", "1", "2", ")", " ", "RU_NACHALO", " ", "RU_V", " ", "1", "8", ":", "0", "0">>,
     <<"3", "1", "4", " ", "(", "?", " ", "ON", " ", "0", "1", "/", "1", "0", ")">>,
     <<"4", "2", "1", " ", "(", "3", "1", "6", " ", "FROM", " ", "3", "1", "/", "1", "0", ")">>,
     <<"4", "6", "0", " ", "EXCEPT", " ", "2", "8", "/", "1", "1">>,
     <<"3", "0", "3", " ", "RU_KROME", " ", "1", "8", "/", "1", "1">>,
     <<"3", "1", "4", " ", "EXCEPT", " ", "3", "0", "/", "0", "1", " ", "0", "6", "/", "0", "2">>,
     <<"4", "6", "0", " ", "EXCEPT", " ", "2", "8", ".", "1", "1", " ", "1", "5", ".", "1", "2">>,
     <<"3", "0", "3", " ", "RU_KROME", " ", "1", "8", "/", "1", "1", ",", " ", "2", "5", "/", "1", "1">>,
     <<"3", "1", "7", " ", "ON", " ", "1", "5", "/", "0", "2", ",", " ", "2", "2", "/", "0", "2", ",", " ", "1", "5", "/", "0", "3", ",", " ", "2", "2", "/", "0", "3", ",", " ", "5", "/", "0", "4", ",", " ", "1", "2", "/", "0", "4", ",", " ", "1", "9", "/", "0", "4", " ", "(", "ONLINE", " ", "ON", " ", "2", "6", "/", "0", "4", ")">>,
     <<"RU_ONLINE", " ", "(", "TBA", ")", " ", "RU_NACHALO", " ", "RU_V", " ", "1", "8", ":", "3", "0">>,
     <<"ONLINE", " ", "ON", " ", "1", "0", "/", "0", "2", ",", " ", "1", "7", "/", "0", "2", ",", " ", "0", "3", "/", "0", "3", ",", " ", "1", "0", "/", "0", "3", " ", "STARTS", " ", "AT", " ", "1", "1", ":", "0", "0", " ", "TILL", " ", "1", "4", ":", "0", "0">>,
     <<"4", "6", "0", " ", "STARTS", " ", "FROM", " ", "0", "7", "/", "0", "4", " ", "(", "ONLINE", " ", "ON", " ", "0", "7", "/", "0", "4", ")">>,
     <<"ONLINE", " ", "FROM", " ", "1", "3", "/", "0", "2", " ", "STARTS", " ", "AT", " ", "1", "0", ":", "0", "0", " ", "TILL", " ", "1", "1", ":", "3", "0">>,
     <<"ONLINE", " ", "ON", " ", "1", "3", "/", "0", "9", ",", " ", "2", "0", "/", "0", "9">>,
     <<"?">>, <<"ONLINE", " ", "(", "TBA", ")">>,
     <<"1", "0", "6", "/", "3", "1", "3", "/", "3", "1", "4">>,
     <<"STARTS", " ", "AT", " ", "1", "8", ":", "0", "0">>,
     <<"EXCEPT", " ", "3", "0", "/", "0", "1", ",", " ", "0", "6", "/", "0", "2">>}

\* the largest week number of the generated week lists
MaxWeek == 2

\* the largest number of atoms of the generated slash-joined runs
MaxRun == 3

Sp == <<" ">>

Paren(m) == <<"(">> \o m \o <<")">>

Atoms ==
    StartsFromAtoms \cup StartsAtAtoms \cup OnAtoms \cup TillAtoms \cup ExceptAtoms
        \cup WeekAtoms

\* a week entry is <<n>> for the single n and <<n, m>> for the range n-m; a
\* week list has one or two entries
WeekEntries ==
    {<<a>> : a \in 0..MaxWeek} \cup {<<a, b>> : a, b \in 0..MaxWeek}

WeekLists == {<<e>> : e \in WeekEntries} \cup {<<e, f>> : e, f \in WeekEntries}

EntryText(e) ==
    IF Len(e) = 1 THEN <<ToString(e[1])>>
    ELSE <<ToString(e[1]), "-", ToString(e[2])>>

WeekText(l) ==
    <<"WEEK", " ">> \o EntryText(l[1])
        \o (IF Len(l) = 2 THEN <<",", " ">> \o EntryText(l[2]) ELSE <<>>)

WeekTexts == {WeekText(l) : l \in WeekLists}

RECURSIVE Runs(_)
\* the runs of n location atoms joined by "/"
Runs(n) ==
    IF n = 1 THEN Locations
    ELSE {r \o <<"/">> \o a : r \in Runs(n - 1), a \in Locations}

SlashTexts ==
    UNION {Runs(n) : n \in 2..MaxRun}
        \cup {a \o <<" ", "/", " ">> \o b : a, b \in Locations}

FlatTexts ==
    Locations \cup OtherLocations \cup SlashTexts \cup Atoms \cup WeekTexts
        \cup {l \o Sp \o m : l \in Locations, m \in Atoms}
        \cup {l \o Sp \o Paren(m) : l \in NestLocations, m \in Atoms}
        \cup {a \o Sp \o b : a, b \in PairAtoms}
        \cup {l \o Sp \o a \o Sp \o b : l \in NestLocations, a, b \in TripleAtoms}
        \cup {a \o Sp \o b \o Sp \o c : a, b, c \in TripleAtoms}
        \cup {<<"3", "1", "3", " ">> \o a \o Sp \o b \o Sp \o c : a, b, c \in TripleAtoms}

\* one template for each nesting family, a text nested twice, a text whose
\* root sets till and whose child has a date and starts_at, and a text
\* whose root and child have a date in January
NestTexts ==
    {<<"3", "1", "3", " ", "(">> \o l \o Sp \o m \o <<")">> :
        l \in NestLocations, m \in NestAtoms}
        \cup {<<"3", "1", "3", " ", "(", "1", "0", "5", " ", "(">> \o l \o Sp \o m
                  \o <<")", ")">> : l \in NestLocations, m \in NestAtoms}
        \cup {<<"3", "1", "3", " ">> \o Paren(m) \o <<" ", "/", " ">> \o l :
                  l \in NestLocations, m \in NestAtoms}
        \cup {<<"3", "1", "3", " ">> \o m \o <<" ", "/", " ", "ONLINE", " ">> \o n :
                  m, n \in NestAtoms}
        \cup {<<"1", "0", "5", " ">> \o m \o <<",", " ", "1", "0", "6", " ">> \o n :
                  m, n \in NestAtoms}
        \cup {<<"1", "0", "5", " ">> \o m \o <<",", " ", "1", "0", "6", " ">> \o n
                  \o <<",", " ", "ONLINE", " ">> \o o : m, n \in NestAtoms, o \in CommonAtoms}
        \cup {<<"ONLINE", " ">> \o m \o <<",", " ", "1", "0", "8", " ">> \o n \o Sp
                  \o Paren(c) : m, n \in NestAtoms, c \in CommonAtoms}
        \cup {<<"3", "1", "4", " ", "(", "3", "1", "2", " ">> \o m
                  \o <<")", " ", "3", "0", "1", " ">> \o n : m, n \in NestAtoms}
        \cup {<<"1", "0", "7", " ", "(", "1", "0", "6", " ">> \o m
                  \o <<",", " ", "1", "0", "5", " ">> \o n \o <<")">> : m, n \in NestAtoms}
        \cup {<<"3", "1", "7", " ">> \o m \o <<" ", "(", "ONLINE", " ">> \o n \o <<")">> :
                  m, n \in NestAtoms}
        \cup {<<"3", "1", "3", " ", "(", "TILL", " ", "1", "8", ":", "0", "0", ")", " ", "/",
                 " ", "ONLINE", " ", "ON", " ", "1", "3", "/", "0", "9", " ", "STARTS", " ",
                 "AT", " ", "8", ":", "0", "0">>,
               <<"1", "0", "5", " ", "ON", " ", "2", "2", "/", "0", "1", ",", " ", "1", "0",
                 "6", " ", "ON", " ", "2", "9", "/", "0", "1">>}

Texts == Cases \cup FlatTexts \cup NestTexts

\* the years the parser module is loaded in: a leap year and this year
Years == {2024, 2026}

\* the slots of the timetable: weekday, start_time, end_time, starts, ends
Slots ==
    {<<4, <<9, 0>>, <<10, 30>>, <<2024, 9, 2>>, <<2024, 12, 15>>>>,
     <<3, <<14, 20>>, <<15, 50>>, <<2024, 1, 22>>, <<2024, 5, 5>>>>,
     <<3, <<9, 0>>, <<10, 30>>, <<2023, 12, 4>>, <<2024, 3, 31>>>>,
     <<0, <<18, 0>>, <<19, 30>>, <<2026, 9, 7>>, <<2026, 12, 20>>>>}

(***************************************************************************)
(* The state machine: a cell text is parsed, and the event of a timetable  *)
(* slot that carries the parsed item is turned into vevents.               *)
(***************************************************************************)
vars ==
    <<text, year, pc, result, group_event, group_vevents, heap, cells, anchor, target, nearest>>

NoEvent == CoreCourseEvent(0, <<0, 0>>, <<0, 0>>, <<1, 1, 1>>, <<1, 1, 1>>, None, None)

Init ==
    /\ text \in Texts
    /\ year \in Years
    /\ pc = "start"
    /\ result = RetNone
    /\ group_event = NoEvent
    /\ group_vevents = Yielded(<<>>)
    /\ heap = <<>>
    /\ cells = <<>>
    /\ anchor = NoEvent.starts
    /\ target = NoEvent.weekday
    /\ nearest = RetNone

\* parse_location_string(text)
Parse ==
    /\ pc = "start"
    /\ result' = Call("parse_location_string", <<text, FALSE>>)
    /\ pc' = "parsed"
    /\ UNCHANGED <<text, year, group_event, group_vevents, heap, cells, anchor, target, nearest>>

\* generate_vevents(event) for an event of a slot whose location_item is the
\* parser's result: the vevents it yields, and the event as the call leaves it
Materialize ==
    /\ pc = "parsed"
    /\ result.kind # "raise"
    /\ \E slot \in Slots :
          LET event == CoreCourseEvent(slot[1], slot[2], slot[3], slot[4], slot[5],
                                       Some(text),
                                       IF result.kind = "item" THEN Some(result.item)
                                       ELSE None)
          IN  /\ group_vevents' = generate_vevents(event)
              /\ group_event' = [event EXCEPT !.location_item = location_item_after(event)]
    /\ pc' = "done"
    /\ UNCHANGED <<text, year, result, heap, cells, anchor, target, nearest>>

Next == Parse \/ Materialize

Spec == Init /\ [][Next]_vars

(***************************************************************************)
(* Several cells handled in any order.  parse_location_string returns a    *)
(* new Item object for each call, the event of the cell refers to it, and  *)
(* generate_vevents reads and assigns the fields of the object its event   *)
(* refers to.  The year of ydate is the state of the module, shared by     *)
(* all calls.                                                              *)
(***************************************************************************)
\* the cells
CellIds == {1, 2}

\* the texts of the cells: no item, an exception, weeks, dates, children
\* that override dates of a weekly root, in and out of the range, and
\* children with their own dates next to a root with dates
CellTexts ==
    {<<"ROOM">>, <<"ON", " ", "3", "1", "/", "0", "2">>, <<"WEEK", " ", "2">>,
     <<"3", "1", "4", " ", "(", "3", "1", "2", " ", "ON", " ", "1", "3", "/", "0", "9",
       ")", " ", "3", "0", "1", " ", "WEEK", " ", "2">>,
     <<"1", "0", "5", " ", "ON", " ", "1", "3", "/", "0", "9", ",", " ", "1", "0", "6",
       " ", "ON", " ", "2", "0", "/", "0", "9", ",", " ", "2", "7", "/", "0", "9">>}

\* a faulty allocation, which gives every object the same address
SameAddress(hp) == 1

\* the address of the object a constructor call returns: one that no object
\* returned before has
NewAddress(hp) == Len(hp) + 1

NoCell ==
    [text |-> <<>>, pc |-> "start", result |-> RetNone, address |-> 0,
     event |-> NoEvent, vevents |-> Yielded(<<>>)]

InitCells ==
    /\ text = <<>>
    /\ year \in Years
    /\ pc = "cells"
    /\ result = RetNone
    /\ group_event = NoEvent
    /\ group_vevents = Yielded(<<>>)
    /\ heap = <<>>
    /\ cells \in [CellIds -> {[NoCell EXCEPT !.text = t] : t \in CellTexts}]
    /\ anchor = NoEvent.starts
    /\ target = NoEvent.weekday
    /\ nearest = RetNone

\* heap with the object at address a set to item
Store(hp, a, item) ==
    [b \in 1..(IF a > Len(hp) THEN a ELSE Len(hp)) |-> IF b = a THEN item ELSE hp[b]]

\* parse_location_string(text) for cell c
ParseCell(c) ==
    /\ pc = "cells"
    /\ cells[c].pc = "start"
    /\ LET parsed(returned) ==
               IF returned.kind = "item"
               THEN /\ heap' = Store(heap, NewAddress(heap), returned.item)
                    /\ cells' = [cells EXCEPT ![c].pc = "parsed", ![c].result = returned,
                                              ![c].address = NewAddress(heap)]
               ELSE /\ heap' = heap
                    /\ cells' = [cells EXCEPT ![c].pc = "parsed", ![c].result = returned]
       IN  parsed(Call("parse_location_string", <<cells[c].text, FALSE>>))
    /\ UNCHANGED <<text, year, pc, result, group_event, group_vevents, anchor, target, nearest>>

\* generate_vevents(event) for the event of cell c in a slot, whose
\* location_item is the object the parser returned for the cell
MaterializeCell(c) ==
    /\ pc = "cells"
    /\ cells[c].pc = "parsed"
    /\ cells[c].result.kind # "raise"
    /\ \E slot \in Slots :
          LET event == CoreCourseEvent(slot[1], slot[2], slot[3], slot[4], slot[5],
                                       Some(cells[c].text),
                                       IF cells[c].address # 0
                                       THEN Some(heap[cells[c].address]) ELSE None)
          IN  /\ cells' = [cells EXCEPT ![c].pc = "done", ![c].event = event,
                                        ![c].vevents = generate_vevents(event)]
              /\ heap' = IF cells[c].address # 0
                         THEN Store(heap, cells[c].address, location_item_after(event)[1])
                         ELSE heap
    /\ UNCHANGED <<text, year, pc, result, group_event, group_vevents, anchor, target, nearest>>

NextCells == \E c \in CellIds : ParseCell(c) \/ MaterializeCell(c)

SpecCells == InitCells /\ [][NextCells]_vars

(***************************************************************************)
(* nearest_weekday on its own: it is called for a date and a weekday, and  *)
(* then for the date it returned and the same weekday.                     *)
(***************************************************************************)
\* the dates nearest_weekday is called for run from FirstDay to LastDay: the
\* end of a year, and the end of February of a leap year
FirstDay == <<2023, 12, 20>>

LastDay == <<2024, 3, 10>>

InitDays ==
    /\ text = <<>>
    /\ year = 2024
    /\ pc = "days"
    /\ result = RetNone
    /\ group_event = NoEvent
    /\ group_vevents = Yielded(<<>>)
    /\ heap = <<>>
    /\ cells = <<>>
    /\ anchor \in {FromOrd(n) : n \in Ord(FirstDay)..Ord(LastDay)}
    /\ target \in 0..6
    /\ nearest = RetNone

\* nearest_weekday(anchor, target)
Nearest ==
    /\ pc = "days"
    /\ nearest' = nearest_weekday(anchor, target)
    /\ pc' = "nearest"
    /\ UNCHANGED <<text, year, result, group_event, group_vevents, heap, cells, anchor, target>>

\* nearest_weekday(r, target) for the date r the first call returned
NearestAgain ==
    /\ pc = "nearest"
    /\ nearest.kind = "item"
    /\ anchor' = nearest.item
    /\ nearest' = nearest_weekday(nearest.item, target)
    /\ pc' = "again"
    /\ UNCHANGED <<text, year, result, group_event, group_vevents, heap, cells, target>>

NextDays == Nearest \/ NearestAgain

SpecDays == InitDays /\ [][NextDays]_vars

(***************************************************************************)
(* Properties.                                                             *)
(***************************************************************************)
\* the children of an item
Children(item) == IF IsSet(item.NEST) THEN item.NEST[1] ELSE <<>>

\* the item and its children
Nodes(item) == <<item>> \o Children(item)

ModifierFields == {"starts_from", "starts_at", "till", "on_weeks", "on", "except_"}

\* what each family returns for the normalized text x, in the order of
\* location_parser.py:192-478
Families(x) ==
    <<LocationAlone(x), any_modifier(x), LocationOneModifier(x), two_modifiers(x),
      LocationTwoModifiers(x), three_modifiers(x), LocationThreeModifiers(x),
      simple_nest(x), nest_1(x), nest_4(x), nest_2(x), nest_3(x), nest_5(x),
      nest_6(x)>>

\* the families that match, i.e. do not return None, fs being what each returns
Hits(fs) == {n \in 1..Len(fs) : fs[n] # RetNone}

\* C1: parse_location_string returns an Item or None for every text and never
\* raises, also for a text whose date or time tokens denote no real date or
\* time
C1_ParseNeverRaises == pc # "start" => result.kind # "raise"

\* C2: generate_vevents ends without an exception for every slot with
\* start_time < end_time, starts <= ends and a weekday in 0..6, and every
\* location item the parser returned
C2_MaterializeNeverRaises == pc = "done" => group_vevents.kind # "raise"

\* C3: no child of a parsed item has children of its own
C3_NestingDepth ==
    (pc # "start" /\ result.kind = "item") =>
        \A k \in 1..Len(Children(result.item)) :
            Children(result.item)[k].NEST = None

\* a text is parsed to an item with two children
C3_Witness ==
    pc # "start" /\ result.kind = "item" /\ Len(Children(result.item)) = 2

\* C4: the root and every child of a parsed item has its location or one of
\* its modifier fields set
C4_NoEmptyItem ==
    (pc # "start" /\ result.kind = "item") =>
        \A k \in 1..Len(Nodes(result.item)) :
            \/ IsSet(Nodes(result.item)[k].location)
            \/ \E f \in ModifierFields : IsSet(Nodes(result.item)[k][f])

\* a text is parsed to an item that has no location
C4_Witness ==
    /\ pc # "start"
    /\ result.kind = "item"
    /\ ~IsSet(result.item.location)

\* C5: the result is what the first family that matches returns, in the
\* order 1..6 (with the location-prefixed form of 6), 7a..7g; when a flat
\* family matches the item has no children; the result is None only when no
\* family matches
C5_FirstMatchWins ==
    pc = "parsed" =>
        LET first(fs) ==
                /\ Hits(fs) # {} => result = fs[Min(Hits(fs))]
                /\ Hits(fs) = {} <=> result = RetNone
                /\ (result.kind = "item" /\ \E n \in Hits(fs) : n <= 7)
                      => result.item.NEST = None
        IN  first(Families(Normalize(text)))

\* a text that a flat family and a nesting family both match is parsed
C5_Witness ==
    /\ pc = "parsed"
    /\ result.kind = "item"
    /\ \E n, m \in Hits(Families(Normalize(text))) : n <= 7 /\ m > 7

\* C6: the text "A B" of two modifier atoms is parsed to the item that has,
\* field by field, the value of B where B sets the field and the value of A
\* elsewhere; when A and B set different fields "B A" is parsed to the same
\* item
C6_TwoModifiersMerge ==
    pc = "parsed" =>
        \A a, b \in PairAtoms :
            (/\ text = a \o Sp \o b
             /\ any_modifier(a).kind = "item"
             /\ any_modifier(b).kind = "item") =>
                /\ result.kind = "item"
                /\ \A f \in DOMAIN result.item :
                       result.item[f] = IF IsSet(any_modifier(b).item[f])
                                        THEN any_modifier(b).item[f]
                                        ELSE any_modifier(a).item[f]
                /\ (\A f \in ModifierFields :
                        ~(IsSet(any_modifier(a).item[f]) /\ IsSet(any_modifier(b).item[f])))
                      => parse_location_string(b \o Sp \o a, FALSE) = result

\* a text of two atoms that set the same field to different values is parsed
C6_Witness ==
    /\ pc = "parsed"
    /\ result.kind = "item"
    /\ \E a, b \in PairAtoms :
          /\ text = a \o Sp \o b
          /\ any_modifier(a).kind = "item"
          /\ any_modifier(b).kind = "item"
          /\ \E f \in ModifierFields :
                /\ IsSet(any_modifier(a).item[f])
                /\ IsSet(any_modifier(b).item[f])
                /\ any_modifier(a).item[f] # any_modifier(b).item[f]

\* the text of family 7d with the leading modifier m, the nested clause
\* "108 n" and the common modifier c
Text7d(m, n, c) ==
    <<"ONLINE", " ">> \o m \o <<",", " ", "1", "0", "8", " ">> \o n \o Sp \o Paren(c)

\* C7: in the item of family 7d the nested clause has the starts_at and the
\* till it set itself, and the common modifier's where it set none; the on of
\* the root is the on of the leading clause
C7_CommonModifierKeepsOwn ==
    pc = "parsed" =>
        \A m, n \in NestAtoms, c \in CommonAtoms :
            (/\ text = Text7d(m, n, c)
             /\ result.kind = "item"
             /\ result = nest_2(Normalize(text))) =>
                LET child == Children(result.item)[1]
                    own == any_modifier(n).item
                    common == any_modifier(c).item
                IN  /\ child.starts_at = IF IsSet(own.starts_at) THEN own.starts_at
                                         ELSE common.starts_at
                    /\ child.till = IF IsSet(own.till) THEN own.till ELSE common.till
                    /\ result.item.on = any_modifier(m).item.on

\* the slash-joined runs of two or more location atoms
SlashRuns == UNION {Runs(n) : n \in 2..MaxRun}

\* C8: a run of two or more location atoms joined by "/" is parsed to an item
\* that has only its location set, which is the run as it was written
C8_SlashRunIsLocation ==
    (pc = "parsed" /\ text \in SlashRuns) =>
        /\ result.kind = "item"
        /\ result.item = [EmptyItem EXCEPT !.location = Some(text)]

\* the weeks n, n+1, .., m of the entry n-m, the week n of the entry n
Expand(e) ==
    IF Len(e) = 1 THEN <<e[1]>>
    ELSE [k \in 1..(IF e[2] >= e[1] THEN e[2] - e[1] + 1 ELSE 0) |-> e[1] + k - 1]

\* C9: on_weeks of an accepted "WEEK <list>" is the expansion of the entries
\* of the list, entry by entry, and is in ascending order
C9_WeeksExpandedAscending ==
    pc = "parsed" =>
        \A l \in WeekLists :
            (text = WeekText(l) /\ result.kind = "item") =>
                /\ result.item.on_weeks =
                       Some(Expand(l[1]) \o (IF Len(l) = 2 THEN Expand(l[2]) ELSE <<>>))
                /\ \A j, k \in 1..Len(result.item.on_weeks[1]) :
                       j < k => result.item.on_weeks[1][j] <= result.item.on_weeks[1][k]

\* C10: every week of on_weeks of a parsed item and of its children is at
\* least 1
C10_WeeksPositive ==
    (pc # "start" /\ result.kind = "item") =>
        \A k \in 1..Len(Nodes(result.item)) :
            IsSet(Nodes(result.item)[k].on_weeks) =>
                \A j \in 1..Len(Nodes(result.item)[k].on_weeks[1]) :
                    Nodes(result.item)[k].on_weeks[1][j] >= 1

\* the first date on or after date d that falls on weekday wd (0 is Monday)
FirstOnOrAfter(d, wd) ==
    FromOrd(Min({n \in Ord(d)..(Ord(d) + 6) : (n + 6) % 7 = wd}))

\* C11: for a text without a parsed item generate_vevents yields one vevent:
\* weekly until the end of the slot, from the first date on or after the
\* start of the slot that falls on its weekday, with the times and the
\* location of the slot, and with no dates, exceptions or overridden date
C11_NoItemOneWeekly ==
    (pc = "done" /\ result.kind = "none") =>
        group_vevents =
            Yielded(<<VEvent(IF text # <<>> THEN Some(text) ELSE None, "x",
                             Combine(FirstOnOrAfter(group_event.starts, group_event.weekday),
                                     group_event.start_time),
                             Combine(FirstOnOrAfter(group_event.starts, group_event.weekday),
                                     group_event.end_time),
                             Some(group_event.ends), None, None, None, None)>>)

\* the events of a text without an item have been generated, for a slot that
\* starts on its weekday
C11_Witness ==
    /\ pc = "done"
    /\ result.kind = "none"
    /\ text # <<>>
    /\ WeekdayOf(group_event.starts) = group_event.weekday

\* generate_vevents ended without an exception and yielded the root vevent
Emitted == pc = "done" /\ group_vevents.kind = "ok" /\ group_vevents.vevents # <<>>

\* the vevent of the root item among the vevents yielded: the one that
\* overrides no date and has the uid of the event
RootOf(vevents) ==
    CHOOSE v \in Range1(vevents) : v.recurrence_id = None /\ v.uid = "x"

\* the time of day of a datetime
TimeOfDay(dt) == <<dt[4], dt[5]>>

\* C12: when the root item sets starts_at and no till, the root vevent starts
\* at starts_at and its end time minus its start time is the end time minus
\* the start time of the slot
C12_DurationPreserved ==
    (/\ Emitted
     /\ result.kind = "item"
     /\ IsSet(result.item.starts_at)
     /\ ~IsSet(result.item.till)) =>
        /\ TimeOfDay(RootOf(group_vevents.vevents).dtstart) = result.item.starts_at[1]
        /\ Minutes(TimeOfDay(RootOf(group_vevents.vevents).dtend))
               - Minutes(TimeOfDay(RootOf(group_vevents.vevents).dtstart))
           = Minutes(group_event.end_time) - Minutes(group_event.start_time)

\* C13: when the root item sets till, the root vevent ends at till, and
\* starts at starts_at if the item sets it and at the start time of the slot
\* if not
C13_TillOverrides ==
    (Emitted /\ result.kind = "item" /\ IsSet(result.item.till)) =>
        /\ TimeOfDay(RootOf(group_vevents.vevents).dtend) = result.item.till[1]
        /\ TimeOfDay(RootOf(group_vevents.vevents).dtstart) =
               IF IsSet(result.item.starts_at) THEN result.item.starts_at[1]
               ELSE group_event.start_time

\* the events of an item with starts_at and till have been generated, till
\* not being the end that keeps the duration of the slot
C13_Witness ==
    /\ Emitted
    /\ result.kind = "item"
    /\ IsSet(result.item.till)
    /\ IsSet(result.item.starts_at)
    /\ Minutes(result.item.till[1]) - Minutes(result.item.starts_at[1])
          # Minutes(group_event.end_time) - Minutes(group_event.start_time)

\* the start date of the events of the slot: starts_from of the root item if
\* it sets one, the start of the slot if not
StartDate(event) ==
    IF IsSet(event.location_item[1].starts_from)
    THEN event.location_item[1].starts_from[1]
    ELSE event.starts

\* the date of week w (from 1) counted from the first date on or after
\* StartDate that falls on the weekday of the slot
DateOfWeek(event, w) ==
    FromOrd(Ord(FirstOnOrAfter(StartDate(event), event.weekday)) + 7 * (w - 1))

\* C14: for the root item and each of its children, the dates that
\* convert_weeks_on_to_only_on leaves in on are the dates on had and, for each
\* week w of on_weeks, the date of week w
C14_WeekNormalization ==
    (pc = "done" /\ result.kind = "item") =>
        \A k \in 1..Len(Nodes(result.item)) :
            (/\ Truthy(Nodes(result.item)[k].on_weeks)
             /\ convert_weeks_on_to_only_on(group_event, Nodes(result.item)[k]).kind = "item") =>
                Range1(convert_weeks_on_to_only_on(group_event, Nodes(result.item)[k]).item.on[1])
                  = (IF IsSet(Nodes(result.item)[k].on) THEN Range1(Nodes(result.item)[k].on[1])
                     ELSE {})
                      \cup {DateOfWeek(group_event, w) : w \in Range1(Nodes(result.item)[k].on_weeks[1])}

\* the date of a datetime
DateOfDay(dt) == <<dt[1], dt[2], dt[3]>>

\* C15: every date of the rdate of every vevent yielded lies between the
\* start and the end of the slot
C15_DatesInRange ==
    pc = "done" =>
        \A k \in 1..Len(group_vevents.vevents) :
            IsSet(group_vevents.vevents[k].rdate) =>
                \A j \in 1..Len(group_vevents.vevents[k].rdate[1]) :
                    /\ Ord(group_event.starts)
                          <= Ord(DateOfDay(group_vevents.vevents[k].rdate[1][j]))
                    /\ Ord(DateOfDay(group_vevents.vevents[k].rdate[1][j]))
                          <= Ord(group_event.ends)

\* the dates of on of the root item after convert_weeks_on_to_only_on
RootDates(event) ==
    LET converted == convert_weeks_on_to_only_on(event, event.location_item[1])
    IN  IF Truthy(converted.item.on) THEN Range1(converted.item.on[1]) ELSE {}

\* the dates of S between the start and the end of the slot
Within(event, S) ==
    {d \in S : Ord(event.starts) <= Ord(d) /\ Ord(d) <= Ord(event.ends)}

C17_WeeklyWithExceptions ==
    (Emitted /\ result.kind = "item" /\ RootDates(group_event) = {}) =>
        /\ RootOf(group_vevents.vevents).rrule = Some(group_event.ends)
        /\ IF IsSet(result.item.except_)
           THEN /\ IsSet(RootOf(group_vevents.vevents).exdate)
                /\ [j \in 1..Len(RootOf(group_vevents.vevents).exdate[1]) |->
                       DateOfDay(RootOf(group_vevents.vevents).exdate[1][j])]
                     = result.item.except_[1]
           ELSE RootOf(group_vevents.vevents).exdate = None

\* the item has dates after convert_weeks_on_to_only_on
Dated(item) == Truthy(item.on) \/ Truthy(item.on_weeks)

\* the event whose location item has lost the children without dates
WithoutUndated(event) ==
    [event EXCEPT !.location_item =
        Some([event.location_item[1] EXCEPT !.NEST =
                 IF IsSet(event.location_item[1].NEST)
                 THEN Some(SelectSeq(event.location_item[1].NEST[1], Dated))
                 ELSE None])]

C19_WeeksThenElsewhere ==
    (/\ Emitted
     /\ result.kind = "item"
     /\ IsSet(result.item.location)
     /\ Truthy(result.item.on_weeks)
     /\ Len(Children(result.item)) = 1
     /\ Children(result.item)[1]
          = [EmptyItem EXCEPT !.location = Children(result.item)[1].location]
     /\ IsSet(Children(result.item)[1].location)) =>
        /\ Len(group_vevents.vevents) = 2
        /\ RootOf(group_vevents.vevents).location = result.item.location
        /\ \E k \in 1..2 :
              group_vevents.vevents[k].location = Children(result.item)[1].location

\* the dates of the children of the item of the event that lie in the range
\* of the slot, as pairs <<child, date>>, in the order of the children and
\* in ascending order of the dates of a child
DatedPairs(event) ==
    LET NEST == Children(event.location_item[1])
        dates(i) == LET converted == convert_weeks_on_to_only_on(event, NEST[i])
                    IN  IF Truthy(converted.item.on)
                        THEN SortDates(Within(event, Range1(converted.item.on[1])))
                        ELSE <<>>
    IN  Flatten([i \in 1..Len(NEST) |-> [j \in 1..Len(dates(i)) |-> <<i, dates(i)[j]>>]])

\* the event whose location item has lost its children
WithoutChildren(event) ==
    [event EXCEPT !.location_item = Some([event.location_item[1] EXCEPT !.NEST = None])]

NestedDates(event) ==
    LET NEST == Children(event.location_item[1])
        dates(i) == LET converted == convert_weeks_on_to_only_on(event, NEST[i])
                    IN  IF Truthy(converted.item.on) THEN converted.item.on[1] ELSE <<>>
    IN  Flatten([i \in 1..Len(NEST) |-> dates(i)])

\* C21: when the root item is weekly, the vevents yielded before the root
\* vevent carry the sequence numbers 1, 2, 3, ... in the order they are
\* yielded, there are as many of them as dates of the children in the range
\* of the slot, and the root vevent, yielded last, carries none
C21_SequenceNumbers ==
    (Emitted /\ result.kind = "item" /\ RootDates(group_event) = {}) =>
        /\ [k \in 1..Len(group_vevents.vevents) |-> group_vevents.vevents[k].sequence]
             = [k \in 1..Len(group_vevents.vevents) |->
                   IF k < Len(group_vevents.vevents) THEN Some(k) ELSE None]
        /\ Len(group_vevents.vevents) - 1
             = Len(SelectSeq(NestedDates(group_event),
                             LAMBDA d : Ord(group_event.starts) <= Ord(d)
                                            /\ Ord(d) <= Ord(group_event.ends)))

\* the events of a weekly item have been generated, the first date of its
\* children lying out of the range of the slot and a later one in it
C21_Witness ==
    /\ Emitted
    /\ result.kind = "item"
    /\ RootDates(group_event) = {}
    /\ Len(group_vevents.vevents) >= 2
    /\ Within(group_event, {NestedDates(group_event)[1]}) = {}

\* C22: when the root item is weekly, the vevent that overrides a date of a
\* child has the location of the child if it sets one and that of the root
\* vevent if not; it starts at starts_at of the child if set and at the
\* start time of the root vevent if not; it ends at till of the child if
\* set, else, with starts_at of the child set, at its start plus the end
\* time minus the start time of the slot, else at the end time of the root
\* vevent; and it starts and ends on the date it overrides
C22_OverrideFields ==
    (Emitted /\ result.kind = "item" /\ RootDates(group_event) = {}) =>
        LET pairs == DatedPairs(group_event)
            vevents == group_vevents.vevents
            root == vevents[Len(vevents)]
            holds(k, child) ==
                /\ vevents[k].location =
                       IF IsSet(child.location) THEN child.location ELSE root.location
                /\ TimeOfDay(vevents[k].dtstart) =
                       IF IsSet(child.starts_at) THEN child.starts_at[1]
                       ELSE TimeOfDay(root.dtstart)
                /\ Minutes(TimeOfDay(vevents[k].dtend)) =
                       IF IsSet(child.till) THEN Minutes(child.till[1])
                       ELSE IF IsSet(child.starts_at)
                       THEN Minutes(child.starts_at[1]) + Minutes(group_event.end_time)
                                - Minutes(group_event.start_time)
                       ELSE Minutes(TimeOfDay(root.dtend))
                /\ DateOfDay(vevents[k].dtstart) = pairs[k][2]
                /\ DateOfDay(vevents[k].dtend) = pairs[k][2]
        IN  \A k \in 1..Len(pairs) : holds(k, Children(result.item)[pairs[k][1]])

\* the children of the item of the event that have a date in the range of
\* the slot after convert_weeks_on_to_only_on, as pairs of the child and its
\* dates in the range in ascending order, in the order of the children
DatedChildren(event) ==
    LET NEST == Children(event.location_item[1])
        dates(i) == LET converted == convert_weeks_on_to_only_on(event, NEST[i])
                    IN  IF Truthy(converted.item.on)
                        THEN SortDates(Within(event, Range1(converted.item.on[1])))
                        ELSE <<>>
    IN  SelectSeq([i \in 1..Len(NEST) |-> <<NEST[i], dates(i)>>], LAMBDA p : p[2] # <<>>)

\* C23: when the root item has dates, the root vevent is yielded first, and
\* then one vevent for each child that has a date in the range of the slot,
\* in the order of the children: it has the dates of the child that lie in
\* the range as its rdate, no weekly rule, no overridden date and no
\* sequence number, and the uids of the vevents yielded differ from each
\* other
C23_SiblingsAfterRoot ==
    (Emitted /\ result.kind = "item" /\ RootDates(group_event) # {}) =>
        LET kept == DatedChildren(group_event)
            vevents == group_vevents.vevents
        IN  /\ Len(vevents) = Len(kept) + 1
            /\ <<vevents[1]>> = generate_vevents(WithoutChildren(group_event)).vevents
            /\ vevents[1].uid = "x"
            /\ \A k \in 1..Len(kept) :
                  /\ IsSet(vevents[k + 1].rdate)
                  /\ [j \in 1..Len(vevents[k + 1].rdate[1]) |->
                         DateOfDay(vevents[k + 1].rdate[1][j])] = kept[k][2]
                  /\ vevents[k + 1].rrule = None
                  /\ vevents[k + 1].recurrence_id = None
                  /\ vevents[k + 1].sequence = None
            /\ \A j, k \in 1..Len(vevents) : vevents[j].uid = vevents[k].uid => j = k

\* C24: generate_vevents leaves the location item of the event, the root
\* item and its children, as the parser returned it
C24_ItemUnchanged ==
    (pc = "done" /\ result.kind = "item") => group_event.location_item = Some(result.item)

\* the event of a cell in the slot of event whose location_item is what the
\* parser returns for the text
Alone(txt, event) ==
    LET returned == Call("parse_location_string", <<txt, FALSE>>)
    IN  [event EXCEPT !.location = Some(txt),
                      !.location_item = IF returned.kind = "item" THEN Some(returned.item)
                                        ELSE None]

C27_StartsOnFirstDate ==
    pc = "done" =>
        \A k \in 1..Len(group_vevents.vevents) :
            IsSet(group_vevents.vevents[k].rdate) =>
                /\ \E j \in 1..Len(group_vevents.vevents[k].rdate[1]) :
                      DateOfDay(group_vevents.vevents[k].rdate[1][j])
                          = DateOfDay(group_vevents.vevents[k].dtstart)
                /\ \A j \in 1..Len(group_vevents.vevents[k].rdate[1]) :
                      Ord(DateOfDay(group_vevents.vevents[k].dtstart))
                          <= Ord(DateOfDay(group_vevents.vevents[k].rdate[1][j]))
                /\ Ord(group_event.starts) <= Ord(DateOfDay(group_vevents.vevents[k].dtstart))
                /\ Ord(DateOfDay(group_vevents.vevents[k].dtstart)) <= Ord(group_event.ends)

\* C28: the date a yielded vevent overrides falls on the weekday of the
\* slot, is not before the date the root vevent starts on and not after the
\* end of the slot
C28_OverriddenDateOccurs ==
    Emitted =>
        \A k \in 1..Len(group_vevents.vevents) :
            IsSet(group_vevents.vevents[k].recurrence_id) =>
                /\ WeekdayOf(DateOfDay(group_vevents.vevents[k].recurrence_id[1]))
                       = group_event.weekday
                /\ Ord(DateOfDay(RootOf(group_vevents.vevents).dtstart))
                       <= Ord(DateOfDay(group_vevents.vevents[k].recurrence_id[1]))
                /\ Ord(DateOfDay(group_vevents.vevents[k].recurrence_id[1]))
                       <= Ord(group_event.ends)

\* C29: every vevent yielded with a weekly rule starts on a date that is
\* not after the UNTIL date of the rule, the end of the slot
C29_StartsBeforeUntil ==
    pc = "done" =>
        \A k \in 1..Len(group_vevents.vevents) :
            IsSet(group_vevents.vevents[k].rrule) =>
                /\ group_vevents.vevents[k].rrule = Some(group_event.ends)
                /\ Ord(DateOfDay(group_vevents.vevents[k].dtstart)) <= Ord(group_event.ends)

\* C30: in the item of family 7d every modifier field that the leading
\* modifier or the common modifier sets is set in the root item, to the value
\* one of the two gave it
C30_NoFieldLost ==
    pc = "parsed" =>
        \A m, n \in NestAtoms, c \in CommonAtoms :
            (/\ text = Text7d(m, n, c)
             /\ result.kind = "item"
             /\ result = nest_2(Normalize(text))) =>
                LET leading == any_modifier(m).item
                    common == any_modifier(c).item
                IN  \A f \in ModifierFields :
                        /\ IsSet(leading[f]) => result.item[f] \in {leading[f], common[f]}
                        /\ IsSet(common[f]) => result.item[f] \in {leading[f], common[f]}
                        /\ (IsSet(leading[f]) \/ IsSet(common[f])) => IsSet(result.item[f])

====
